---------------------------- MODULE Spec2Model ----------------------------
(***************************************************************************)
(* A model of the jtdubs/emu single-board-computer emulator: the W65C02S   *)
(* micro-sequenced CPU core (src/src/components/cpu.rs), the CPU-test      *)
(* harness bus (src/src/system/cpu_test_system.rs) and the breadboard bus  *)
(* with its devices (src/src/system/breadboard_system.rs,                  *)
(* src/src/component/mos6522.rs, src/src/component/snes_controller.rs,     *)
(* src/src/components/display.rs).                                         *)
(*                                                                         *)
(* One call of cycle() is one step.  The body of cycle() is translated as  *)
(* a function on a machine record m = [cpu, bus, log, panic, val, oc]:     *)
(*   cpu   the fields of the W65C02S struct                                *)
(*   bus   the state of the Bus the CPU owns                               *)
(*   log   the bus transactions issued so far in this call                 *)
(*   panic "none", or the reason the call aborted the process              *)
(*   val   the byte returned by the last bus read                          *)
(*   oc    whether the build checks integer overflow (debug profile) or    *)
(*         wraps (release profile)                                         *)
(* Statements are composed inside out: the operator of a statement takes   *)
(* the machine its predecessor left, and leaves a machine that has         *)
(* panicked as it is.                                                      *)
(***************************************************************************)
EXTENDS Integers, Sequences, FiniteSets, TLC

VARIABLES
  cpu,              \* the W65C02S struct
  bus,              \* the Bus owned by the CPU
  log,              \* bus transactions of the last cycle()/bus call
  fault,            \* "none", or why the process aborted (a Rust panic)
  overflow_checks,  \* build profile: TRUE = arithmetic overflow panics
  ticks,            \* number of cycle() or direct bus calls so far
  prev,             \* the W65C02S struct at the start of the last cycle()
  dbg               \* the Debugger: breakpoints and the command in progress

vars == <<cpu, bus, log, fault, overflow_checks, ticks, prev, dbg>>

-----------------------------------------------------------------------------
(* Bounds of the model *)

\* a run is followed for this many cycle() calls
MaxTicks == 20

\* largest TCU value drawn for an arbitrary CPU struct
MaxTcu == 8

\* cycle() calls followed from an arbitrary CPU struct
MaxArmTicks == 1

\* direct bus calls followed from a fresh breadboard bus
MaxBusOps == 3
MaxSysTicks == 48
MaxLatch == 4
MaxProgTicks == 27
MaxBranchTicks == 14
MaxLcdWrites == 6
MaxLcdCycles == 40
MaxClocks == 8
MaxDbgTicks == 26
MaxPortWrites == 5
MaxBitTicks == 13
MaxZpTicks == 18
MaxIrqTicks == 34

-----------------------------------------------------------------------------
(* Bit operations on naturals (Rust's &, |, ^, !, <<, >> on u8/u16) *)

RECURSIVE BitAnd(_, _)
BitAnd(a, b) ==
  IF a = 0 \/ b = 0 THEN 0
  ELSE (IF a % 2 = 1 /\ b % 2 = 1 THEN 1 ELSE 0) + 2 * BitAnd(a \div 2, b \div 2)

RECURSIVE BitOr(_, _)
BitOr(a, b) ==
  IF a = 0 THEN b
  ELSE IF b = 0 THEN a
  ELSE (IF a % 2 = 1 \/ b % 2 = 1 THEN 1 ELSE 0) + 2 * BitOr(a \div 2, b \div 2)

RECURSIVE BitXor(_, _)
BitXor(a, b) ==
  IF a = 0 THEN b
  ELSE IF b = 0 THEN a
  ELSE (IF (a % 2) # (b % 2) THEN 1 ELSE 0) + 2 * BitXor(a \div 2, b \div 2)

\* val & f == f for a one-bit mask f
HasBit(val, f) == (val \div f) % 2 = 1

\* val | f and val & !f for a one-bit mask f
SetBit(val, f) == IF HasBit(val, f) THEN val ELSE val + f
ClearBit(val, f) == IF HasBit(val, f) THEN val - f ELSE val

\* 1u8 << n
Pow2(n) == 2 ^ n

-----------------------------------------------------------------------------
(* enum CPUFlag *)

Carry == 1
Zero == 2
IRQB == 4
Decimal == 8
BRK == 16
User == 32
Overflow == 64
Negative == 128

-----------------------------------------------------------------------------
(* fn decode(val: u8) -> Opcode, one row per opcode byte 0x00..0xFF:        *)
(* <<instruction, address mode, first parameter, second parameter>>; the   *)
(* parameters are the bit number of BBR/BBS/RMB/SMB and (bytes, cycles) of *)
(* NOP, and 0 where the instruction has none.                              *)

DecodeTable ==
  <<
    <<"BRK", "Stack", 0, 0>>, <<"ORA", "ZeroPageIndexedIndirect", 0, 0>>,
    <<"NOP", "Implied", 2, 2>>, <<"NOP", "Implied", 1, 1>>,
    <<"TSB", "ZeroPage", 0, 0>>, <<"ORA", "ZeroPage", 0, 0>>,
    <<"ASL", "ZeroPage", 0, 0>>, <<"RMB", "ZeroPage", 0, 0>>,
    <<"PHP", "Stack", 0, 0>>, <<"ORA", "ImmediateAddressing", 0, 0>>,
    <<"ASL", "Accumulator", 0, 0>>, <<"NOP", "Implied", 1, 1>>,
    <<"TSB", "Absolute", 0, 0>>, <<"ORA", "Absolute", 0, 0>>,
    <<"ASL", "Absolute", 0, 0>>, <<"BBR", "ProgramCounterRelative", 0, 0>>,
    <<"BPL", "ProgramCounterRelative", 0, 0>>, <<"ORA", "ZeroPageIndirectIndexedWithY", 0, 0>>,
    <<"ORA", "ZeroPageIndirect", 0, 0>>, <<"NOP", "Implied", 1, 1>>,
    <<"TRB", "ZeroPage", 0, 0>>, <<"ORA", "ZeroPageIndexedWithX", 0, 0>>,
    <<"ASL", "ZeroPageIndexedWithX", 0, 0>>, <<"RMB", "ZeroPage", 1, 0>>,
    <<"CLC", "Implied", 0, 0>>, <<"ORA", "AbsoluteIndexedWithY", 0, 0>>,
    <<"INC", "Accumulator", 0, 0>>, <<"NOP", "Implied", 1, 1>>,
    <<"TRB", "Absolute", 0, 0>>, <<"ORA", "AbsoluteIndexedWithX", 0, 0>>,
    <<"ASL", "AbsoluteIndexedWithX", 0, 0>>, <<"BBR", "ProgramCounterRelative", 1, 0>>,
    <<"JSR", "Absolute", 0, 0>>, <<"AND", "ZeroPageIndexedIndirect", 0, 0>>,
    <<"NOP", "Implied", 2, 2>>, <<"NOP", "Implied", 1, 1>>,
    <<"BIT", "ZeroPage", 0, 0>>, <<"AND", "ZeroPage", 0, 0>>,
    <<"ROL", "ZeroPage", 0, 0>>, <<"RMB", "ZeroPage", 2, 0>>,
    <<"PLP", "Stack", 0, 0>>, <<"AND", "ImmediateAddressing", 0, 0>>,
    <<"ROL", "Accumulator", 0, 0>>, <<"NOP", "Implied", 1, 1>>,
    <<"BIT", "Absolute", 0, 0>>, <<"AND", "Absolute", 0, 0>>,
    <<"ROL", "Absolute", 0, 0>>, <<"BBR", "ProgramCounterRelative", 2, 0>>,
    <<"BMI", "ProgramCounterRelative", 0, 0>>, <<"AND", "ZeroPageIndirectIndexedWithY", 0, 0>>,
    <<"AND", "ZeroPageIndirect", 0, 0>>, <<"NOP", "Implied", 1, 1>>,
    <<"BIT", "ZeroPageIndexedWithX", 0, 0>>, <<"AND", "ZeroPageIndexedWithX", 0, 0>>,
    <<"ROL", "ZeroPageIndexedWithX", 0, 0>>, <<"RMB", "ZeroPage", 3, 0>>,
    <<"SEC", "Implied", 0, 0>>, <<"AND", "AbsoluteIndexedWithY", 0, 0>>,
    <<"DEC", "Accumulator", 0, 0>>, <<"NOP", "Implied", 1, 1>>,
    <<"BIT", "AbsoluteIndexedWithX", 0, 0>>, <<"AND", "AbsoluteIndexedWithX", 0, 0>>,
    <<"ROL", "AbsoluteIndexedWithX", 0, 0>>, <<"BBR", "ProgramCounterRelative", 3, 0>>,
    <<"RTI", "Stack", 0, 0>>, <<"EOR", "ZeroPageIndexedIndirect", 0, 0>>,
    <<"NOP", "Implied", 2, 2>>, <<"NOP", "Implied", 1, 1>>,
    <<"NOP", "Implied", 2, 3>>, <<"EOR", "ZeroPage", 0, 0>>,
    <<"LSR", "ZeroPage", 0, 0>>, <<"RMB", "ZeroPage", 4, 0>>,
    <<"PHA", "Stack", 0, 0>>, <<"EOR", "ImmediateAddressing", 0, 0>>,
    <<"LSR", "Accumulator", 0, 0>>, <<"NOP", "Implied", 1, 1>>,
    <<"JMP", "Absolute", 0, 0>>, <<"EOR", "Absolute", 0, 0>>,
    <<"LSR", "Absolute", 0, 0>>, <<"BBR", "ProgramCounterRelative", 4, 0>>,
    <<"BVC", "ProgramCounterRelative", 0, 0>>, <<"EOR", "ZeroPageIndirectIndexedWithY", 0, 0>>,
    <<"EOR", "ZeroPageIndirect", 0, 0>>, <<"NOP", "Implied", 1, 1>>,
    <<"NOP", "Implied", 2, 4>>, <<"EOR", "ZeroPageIndexedWithX", 0, 0>>,
    <<"LSR", "ZeroPageIndexedWithX", 0, 0>>, <<"RMB", "ZeroPage", 5, 0>>,
    <<"CLI", "Implied", 0, 0>>, <<"EOR", "AbsoluteIndexedWithY", 0, 0>>,
    <<"PHY", "Stack", 0, 0>>, <<"NOP", "Implied", 1, 1>>,
    <<"NOP", "Implied", 3, 8>>, <<"EOR", "AbsoluteIndexedWithX", 0, 0>>,
    <<"LSR", "AbsoluteIndexedWithX", 0, 0>>, <<"BBR", "ProgramCounterRelative", 5, 0>>,
    <<"RTS", "Stack", 0, 0>>, <<"ADC", "ZeroPageIndexedIndirect", 0, 0>>,
    <<"NOP", "Implied", 2, 2>>, <<"NOP", "Implied", 1, 1>>,
    <<"STZ", "ZeroPage", 0, 0>>, <<"ADC", "ZeroPage", 0, 0>>,
    <<"ROR", "ZeroPage", 0, 0>>, <<"RMB", "ZeroPage", 6, 0>>,
    <<"PLA", "Stack", 0, 0>>, <<"ADC", "ImmediateAddressing", 0, 0>>,
    <<"ROR", "Accumulator", 0, 0>>, <<"NOP", "Implied", 1, 1>>,
    <<"JMP", "AbsoluteIndirect", 0, 0>>, <<"ADC", "Absolute", 0, 0>>,
    <<"ROR", "Absolute", 0, 0>>, <<"BBR", "ProgramCounterRelative", 6, 0>>,
    <<"BVS", "ProgramCounterRelative", 0, 0>>, <<"ADC", "ZeroPageIndirectIndexedWithY", 0, 0>>,
    <<"ADC", "ZeroPageIndirect", 0, 0>>, <<"NOP", "Implied", 1, 1>>,
    <<"STZ", "ZeroPageIndexedWithX", 0, 0>>, <<"ADC", "ZeroPageIndexedWithX", 0, 0>>,
    <<"ROR", "ZeroPageIndexedWithX", 0, 0>>, <<"RMB", "ZeroPage", 7, 0>>,
    <<"SEI", "Implied", 0, 0>>, <<"ADC", "AbsoluteIndexedWithY", 0, 0>>,
    <<"PLY", "Stack", 0, 0>>, <<"NOP", "Implied", 1, 1>>,
    <<"JMP", "AbsoluteIndexedIndirect", 0, 0>>, <<"ADC", "AbsoluteIndexedWithX", 0, 0>>,
    <<"ROR", "AbsoluteIndexedWithX", 0, 0>>, <<"BBR", "ProgramCounterRelative", 7, 0>>,
    <<"BRA", "ProgramCounterRelative", 0, 0>>, <<"STA", "ZeroPageIndexedIndirect", 0, 0>>,
    <<"NOP", "Implied", 2, 2>>, <<"NOP", "Implied", 1, 1>>,
    <<"STY", "ZeroPage", 0, 0>>, <<"STA", "ZeroPage", 0, 0>>,
    <<"STX", "ZeroPage", 0, 0>>, <<"SMB", "ZeroPage", 0, 0>>,
    <<"DEY", "Implied", 0, 0>>, <<"BIT", "ImmediateAddressing", 0, 0>>,
    <<"TXA", "Implied", 0, 0>>, <<"NOP", "Implied", 1, 1>>,
    <<"STY", "Absolute", 0, 0>>, <<"STA", "Absolute", 0, 0>>,
    <<"STX", "Absolute", 0, 0>>, <<"BBS", "ProgramCounterRelative", 0, 0>>,
    <<"BCC", "ProgramCounterRelative", 0, 0>>, <<"STA", "ZeroPageIndirectIndexedWithY", 0, 0>>,
    <<"STA", "ZeroPageIndirect", 0, 0>>, <<"NOP", "Implied", 1, 1>>,
    <<"STY", "ZeroPageIndexedWithX", 0, 0>>, <<"STA", "ZeroPageIndexedWithX", 0, 0>>,
    <<"STX", "ZeroPageIndexedWithY", 0, 0>>, <<"SMB", "ZeroPage", 1, 0>>,
    <<"TYA", "Implied", 0, 0>>, <<"STA", "AbsoluteIndexedWithY", 0, 0>>,
    <<"TXS", "Implied", 0, 0>>, <<"NOP", "Implied", 1, 1>>,
    <<"STZ", "Absolute", 0, 0>>, <<"STA", "AbsoluteIndexedWithX", 0, 0>>,
    <<"STZ", "AbsoluteIndexedWithX", 0, 0>>, <<"BBS", "ProgramCounterRelative", 1, 0>>,
    <<"LDY", "ImmediateAddressing", 0, 0>>, <<"LDA", "ZeroPageIndexedIndirect", 0, 0>>,
    <<"LDX", "ImmediateAddressing", 0, 0>>, <<"NOP", "Implied", 1, 1>>,
    <<"LDY", "ZeroPage", 0, 0>>, <<"LDA", "ZeroPage", 0, 0>>,
    <<"LDX", "ZeroPage", 0, 0>>, <<"SMB", "ZeroPage", 2, 0>>,
    <<"TAY", "Implied", 0, 0>>, <<"LDA", "ImmediateAddressing", 0, 0>>,
    <<"TAX", "Implied", 0, 0>>, <<"NOP", "Implied", 1, 1>>,
    <<"LDY", "Absolute", 0, 0>>, <<"LDA", "Absolute", 0, 0>>,
    <<"LDX", "Absolute", 0, 0>>, <<"BBS", "ProgramCounterRelative", 2, 0>>,
    <<"BCS", "ProgramCounterRelative", 0, 0>>, <<"LDA", "ZeroPageIndirectIndexedWithY", 0, 0>>,
    <<"LDA", "ZeroPageIndirect", 0, 0>>, <<"NOP", "Implied", 1, 1>>,
    <<"LDY", "ZeroPageIndexedWithX", 0, 0>>, <<"LDA", "ZeroPageIndexedWithX", 0, 0>>,
    <<"LDX", "ZeroPageIndexedWithY", 0, 0>>, <<"SMB", "ZeroPage", 3, 0>>,
    <<"CLV", "Implied", 0, 0>>, <<"LDA", "AbsoluteIndexedWithY", 0, 0>>,
    <<"TSX", "Implied", 0, 0>>, <<"NOP", "Implied", 1, 1>>,
    <<"LDY", "AbsoluteIndexedWithX", 0, 0>>, <<"LDA", "AbsoluteIndexedWithX", 0, 0>>,
    <<"LDX", "AbsoluteIndexedWithY", 0, 0>>, <<"BBS", "ProgramCounterRelative", 3, 0>>,
    <<"CPY", "ImmediateAddressing", 0, 0>>, <<"CMP", "ZeroPageIndexedIndirect", 0, 0>>,
    <<"NOP", "Implied", 2, 2>>, <<"NOP", "Implied", 1, 1>>,
    <<"CPY", "ZeroPage", 0, 0>>, <<"CMP", "ZeroPage", 0, 0>>,
    <<"DEC", "ZeroPage", 0, 0>>, <<"SMB", "ZeroPage", 4, 0>>,
    <<"INY", "Implied", 0, 0>>, <<"CMP", "ImmediateAddressing", 0, 0>>,
    <<"DEX", "Implied", 0, 0>>, <<"WAI", "Implied", 0, 0>>,
    <<"CPY", "Absolute", 0, 0>>, <<"CMP", "Absolute", 0, 0>>,
    <<"DEC", "Absolute", 0, 0>>, <<"BBS", "ProgramCounterRelative", 4, 0>>,
    <<"BNE", "ProgramCounterRelative", 0, 0>>, <<"CMP", "ZeroPageIndirectIndexedWithY", 0, 0>>,
    <<"CMP", "ZeroPageIndirect", 0, 0>>, <<"NOP", "Implied", 1, 1>>,
    <<"NOP", "Implied", 2, 4>>, <<"CMP", "ZeroPageIndexedWithX", 0, 0>>,
    <<"DEC", "ZeroPageIndexedWithX", 0, 0>>, <<"SMB", "ZeroPage", 5, 0>>,
    <<"CLD", "Implied", 0, 0>>, <<"CMP", "AbsoluteIndexedWithY", 0, 0>>,
    <<"PHX", "Stack", 0, 0>>, <<"STP", "Implied", 0, 0>>,
    <<"NOP", "Implied", 3, 4>>, <<"CMP", "AbsoluteIndexedWithX", 0, 0>>,
    <<"DEC", "AbsoluteIndexedWithX", 0, 0>>, <<"BBS", "ProgramCounterRelative", 5, 0>>,
    <<"CPX", "ImmediateAddressing", 0, 0>>, <<"SBC", "ZeroPageIndexedIndirect", 0, 0>>,
    <<"NOP", "Implied", 2, 2>>, <<"NOP", "Implied", 1, 1>>,
    <<"CPX", "ZeroPage", 0, 0>>, <<"SBC", "ZeroPage", 0, 0>>,
    <<"INC", "ZeroPage", 0, 0>>, <<"SMB", "ZeroPage", 6, 0>>,
    <<"INX", "Implied", 0, 0>>, <<"SBC", "ImmediateAddressing", 0, 0>>,
    <<"NOP", "Implied", 1, 2>>, <<"NOP", "Implied", 1, 1>>,
    <<"CPX", "Absolute", 0, 0>>, <<"SBC", "Absolute", 0, 0>>,
    <<"INC", "Absolute", 0, 0>>, <<"BBS", "ProgramCounterRelative", 6, 0>>,
    <<"BEQ", "ProgramCounterRelative", 0, 0>>, <<"SBC", "ZeroPageIndirectIndexedWithY", 0, 0>>,
    <<"SBC", "ZeroPageIndirect", 0, 0>>, <<"NOP", "Implied", 1, 1>>,
    <<"NOP", "Implied", 2, 4>>, <<"SBC", "ZeroPageIndexedWithX", 0, 0>>,
    <<"INC", "ZeroPageIndexedWithX", 0, 0>>, <<"SMB", "ZeroPage", 7, 0>>,
    <<"SED", "Implied", 0, 0>>, <<"SBC", "AbsoluteIndexedWithY", 0, 0>>,
    <<"PLX", "Stack", 0, 0>>, <<"NOP", "Implied", 1, 1>>,
    <<"NOP", "Implied", 3, 4>>, <<"SBC", "AbsoluteIndexedWithX", 0, 0>>,
    <<"INC", "AbsoluteIndexedWithX", 0, 0>>, <<"BBS", "ProgramCounterRelative", 7, 0>>
  >>

Decode(val) ==
  LET t == DecodeTable[val + 1]
  IN  [ins |-> t[1], mode |-> t[2], n |-> t[3], c |-> t[4]]

\* an Opcode value (Instruction, AddressMode)
Opcode(ins, mode, n, c) == [ins |-> ins, mode |-> mode, n |-> n, c |-> c]

-----------------------------------------------------------------------------
(* RAM: mem is the loaded image img = [org, code, fill] overlaid with the  *)
(* bytes w written since; RAM::load reads the whole 64K image from a file. *)

ImageByte(img, addr) ==
  IF addr >= img.org /\ addr < img.org + Len(img.code)
  THEN img.code[addr - img.org + 1]
  ELSE img.fill

RAM_load(img) == [img |-> img, w |-> <<>>]

RAM_read(ram, addr) ==
  IF addr \in DOMAIN ram.w THEN ram.w[addr] ELSE ImageByte(ram.img, addr)

RAM_write(ram, addr, data) ==
  [ram EXCEPT !.w = [a \in (DOMAIN ram.w) \cup {addr} |->
                       IF a = addr THEN data ELSE ram.w[a]]]

-----------------------------------------------------------------------------
(* CPU-test harness bus: one RAM behind every address *)

TestSystemBus_new(img, entry_address) ==
  LET ram == RAM_load(img)
      lo  == RAM_write(ram, 65532, entry_address % 256)
      hi  == RAM_write(lo, 65533, (entry_address \div 256) % 256)
  IN  [kind |-> "cpu_test", ram |-> hi]

TestSystemBus_read(b, addr) ==
  [bus |-> b, val |-> RAM_read(b.ram, addr), panic |-> "none"]

TestSystemBus_write(b, addr, val) ==
  [bus |-> [b EXCEPT !.ram = RAM_write(@, addr, val)], val |-> 0, panic |-> "none"]

-----------------------------------------------------------------------------
(* Breadboard devices.  A device call returns [dev, val, panic]: the       *)
(* device afterwards, the byte returned, and "none" or the panic reason.   *)

Ret(dev, val, panic) == [dev |-> dev, val |-> val, panic |-> panic]

\* ROM::load: the image file; RAM::new(size): zero-filled
ROM_load(img) == [img |-> img]
RAM_new(size) == [img |-> [org |-> 0, code |-> <<>>, fill |-> 0], w |-> <<>>]

ROM_read(rom, addr) == ImageByte(rom.img, addr)

\* the LCD controller (component/hd44780.rs): run mode, address counter,
\* DDRAM as the cells written since the last clear, previous enable level
HD44780_new ==
  [busy |-> 150, addr |-> 0, ddram |-> <<>>, e |-> FALSE, updated |-> FALSE]

DDRAM_read(dsp) == IF dsp.addr \in DOMAIN dsp.ddram THEN dsp.ddram[dsp.addr] ELSE 32

HD44780_peek(dsp, rs, rw, e) ==
  IF ~rw THEN Ret(dsp, 0, "lcd read with rw=false")
  ELSE IF rs = "Instruction"
  THEN Ret(dsp, IF dsp.busy >= 0 THEN BitOr(dsp.addr, 128) ELSE dsp.addr, "none")
  ELSE Ret(dsp, DDRAM_read(dsp), "none")

HD44780_read(dsp, rs, rw, e) == HD44780_peek(dsp, rs, rw, e)

\* the command or data byte committed on a falling edge of enable
HD44780_commit(dsp, rs, val) ==
  IF rs = "Instruction"
  THEN LET d == IF HasBit(val, 128) THEN [dsp EXCEPT !.addr = (val % 128) % 80]
                ELSE IF val \div 4 > 0 THEN dsp
                ELSE IF HasBit(val, 2) THEN [dsp EXCEPT !.addr = 0]
                ELSE IF HasBit(val, 1) THEN [dsp EXCEPT !.addr = 0, !.ddram = <<>>]
                ELSE dsp
       IN  [d EXCEPT !.busy = 37]
  ELSE LET a  == dsp.addr
           n  == a + 1
           w  == IF ~HasBit(n, 64) THEN (IF n > 40 THEN 64 ELSE n)
                 ELSE (IF n > 64 + 40 THEN 0 ELSE n)
       IN  [dsp EXCEPT !.ddram = [c \in (DOMAIN dsp.ddram) \cup {a} |->
                                    IF c = a THEN val ELSE dsp.ddram[c]],
                       !.addr = w, !.busy = 37, !.updated = TRUE]

HD44780_write(dsp, rs, rw, e, val) ==
  LET d == IF dsp.e /\ ~e /\ ~rw THEN HD44780_commit(dsp, rs, val) ELSE dsp
  IN  [d EXCEPT !.e = e]

\* the game controller
SNESController_new == [state |-> 255, latch |-> 255, shift |-> 255]

SNESController_peek(con) == con.shift % 2
SNESController_read(con) == con.shift % 2

\* Variant: the latch signal loads the shift register from the live buttons
SNESController_write_live(con, latch, clk) ==
  LET l == IF latch THEN [con EXCEPT !.shift = con.state, !.latch = con.state] ELSE con
  IN  IF clk THEN [l EXCEPT !.shift = @ \div 2] ELSE l

SNESController_write(con, latch, clk) ==
  LET l == IF latch THEN [con EXCEPT !.shift = con.latch, !.latch = con.state] ELSE con
  IN  IF clk THEN [l EXCEPT !.shift = @ \div 2] ELSE l

\* struct Peripherals: the Ports of the adapter
Peripherals_new ==
  [dsp |-> HD44780_new, con |-> SNESController_new, a_cache |-> 0, b_cache |-> 0]

\* (rs, rw, e) from a_cache bits 0x20, 0x40, 0x80
get_dsp_pins(ports) ==
  [rs |-> IF HasBit(ports.a_cache, 32) THEN "Data" ELSE "Instruction",
   rw |-> HasBit(ports.a_cache, 64), e |-> HasBit(ports.a_cache, 128)]

\* (latch, clk) from a_cache bits 0x02, 0x04
get_con_pins(ports) ==
  [latch |-> HasBit(ports.a_cache, 2), clk |-> HasBit(ports.a_cache, 4)]

do_write(ports) ==
  LET d == get_dsp_pins(ports)
      c == get_con_pins(ports)
  IN  [ports EXCEPT !.dsp = HD44780_write(@, d.rs, d.rw, d.e, ports.b_cache),
                    !.con = SNESController_write(@, c.latch, c.clk)]

peek_a(ports) == BitAnd(SNESController_peek(ports.con), 7)
read_a(ports) == BitAnd(SNESController_read(ports.con), 7)
write_a(ports, val) == do_write([ports EXCEPT !.a_cache = val])

peek_b(ports) ==
  LET d == get_dsp_pins(ports) IN HD44780_peek(ports.dsp, d.rs, d.rw, d.e)

read_b(ports) ==
  LET d == get_dsp_pins(ports)
      r == HD44780_read(ports.dsp, d.rs, d.rw, d.e)
  IN  Ret([ports EXCEPT !.dsp = r.dev], r.val, r.panic)

write_b(ports, val) == do_write([ports EXCEPT !.b_cache = val])

-----------------------------------------------------------------------------
(* The peripheral adapter, struct MOS6522<Peripherals> *)

\* enum RegisterSelector
PB == 0
PA_HS == 1
DDRB == 2
DDRA == 3
T1C_L == 4
T1C_H == 5
T1L_L == 6
T1L_H == 7
ACR == 11
IFR == 13
IER == 14
PA == 15

\* Interrupts::T1
T1 == 64

MOS6522_new(ports) ==
  [ifr |-> 0, ier |-> 0, acr |-> 0, pcr |-> 0, ira |-> 0, ora |-> 0, ddra |-> 0,
   irb |-> 0, orb |-> 0, ddrb |-> 0, t1c |-> 0, t1l |-> 0, t2c |-> 0, t2l |-> 0,
   sr |-> 0, ca1 |-> FALSE, ca2 |-> FALSE, cb1 |-> FALSE, cb2 |-> FALSE,
   ports |-> ports]

clear_interrupt(per, i) ==
  LET ifr == BitAnd(per.ifr, 255 - i)
  IN  [per EXCEPT !.ifr = IF ifr = 128 THEN 0 ELSE ifr]

\* (out & ddr) | (pins & !ddr)
PortMix(out, ddr, pins) == BitOr(BitAnd(out, ddr), BitAnd(pins, 255 - ddr))

MOS6522_peek(per, addr) ==
  CASE addr = PB ->
         LET r == peek_b(per.ports)
         IN  Ret(per, PortMix(per.orb, per.ddrb, r.val), r.panic)
    [] addr = DDRB  -> Ret(per, per.ddrb, "none")
    [] addr = DDRA  -> Ret(per, per.ddra, "none")
    [] addr = T1C_L -> Ret(per, per.t1c % 256, "none")
    [] addr = T1C_H -> Ret(per, per.t1c \div 256, "none")
    [] addr = T1L_L -> Ret(per, per.t1l % 256, "none")
    [] addr = T1L_H -> Ret(per, per.t1l \div 256, "none")
    [] addr = IFR   -> Ret(per, per.ifr, "none")
    [] addr = IER   -> Ret(per, per.ier, "none")
    [] addr = PA    -> Ret(per, PortMix(per.ora, per.ddra, peek_a(per.ports)), "none")
    [] OTHER        -> Ret(per, 0, "unimplemented")

MOS6522_read(per, addr) ==
  CASE addr = PB ->
         IF ~HasBit(per.acr, 2)
         THEN LET r == read_b(per.ports)
              IN  Ret([per EXCEPT !.ports = r.dev, !.irb = r.val], r.val, r.panic)
         ELSE Ret(per, per.irb, "none")
    [] addr = T1C_L -> Ret(clear_interrupt(per, T1), per.t1c % 256, "none")
    [] addr = T1L_L -> Ret(clear_interrupt(per, T1), per.t1l % 256, "none")
    [] addr = PA    -> Ret(per, PortMix(per.ora, per.ddra, peek_a(per.ports)), "none")
    [] addr \in {DDRB, DDRA, T1C_H, T1L_H, IFR, IER} -> MOS6522_peek(per, addr)
    [] OTHER        -> Ret(per, 0, "unimplemented")

MOS6522_write(per, addr, data) ==
  CASE addr = PB ->
         LET orb == BitAnd(data, per.ddrb)
         IN  Ret([per EXCEPT !.orb = orb, !.ports = write_b(@, orb)], 0, "none")
    [] addr = DDRB  -> Ret([per EXCEPT !.ddrb = data], 0, "none")
    [] addr = DDRA  -> Ret([per EXCEPT !.ddra = data], 0, "none")
    [] addr \in {T1C_L, T1L_L} ->
         Ret([per EXCEPT !.t1l = (@ \div 256) * 256 + data], 0, "none")
    [] addr = T1C_H ->
         LET t1l == (per.t1l % 256) + data * 256
         IN  Ret(clear_interrupt([per EXCEPT !.t1l = t1l, !.t1c = t1l], T1), 0, "none")
    [] addr = T1L_H ->
         LET t1l == (per.t1l % 256) + data * 256
         IN  Ret(clear_interrupt([per EXCEPT !.t1l = t1l], T1), 0, "none")
    [] addr = ACR   -> Ret([per EXCEPT !.acr = data], 0, "none")
    [] addr = IFR   -> Ret([per EXCEPT !.ifr = BitAnd(@, 255 - data)], 0, "none")
    [] addr = IER   -> Ret([per EXCEPT !.ier = data], 0, "none")
    [] addr = PA ->
         LET ora == BitAnd(data, per.ddra)
         IN  Ret([per EXCEPT !.ora = ora, !.ports = write_a(@, ora)], 0, "none")
    [] OTHER        -> Ret(per, 0, "unimplemented")

-----------------------------------------------------------------------------
(* Breadboard bus: struct SystemBus { per, ram, rom } *)

\* (mask, value) selectors
ROM_SELECTOR == <<32768, 32768>>
\* Variant of RAM_SELECTOR: RAM decoded on address bit 15 alone
RAM_SELECTOR_32k == <<32768, 0>>
RAM_SELECTOR == <<49152, 0>>
PER_SELECTOR == <<65520, 24576>>

\* addr & SELECTOR.0 == SELECTOR.1
Selects(sel, addr) == BitAnd(addr, sel[1]) = sel[2]

\* addr & !mask
Local(addr, mask) == BitAnd(addr, 65535 - mask)

SystemBus_new(img) ==
  [kind |-> "breadboard", rom |-> ROM_load(img), ram |-> RAM_new(16384),
   per |-> MOS6522_new(Peripherals_new)]

\* a bus call returns [bus, val, panic]
BusRet(b, val, panic) == [bus |-> b, val |-> val, panic |-> panic]

\* a peek that reads the adapter as the CPU does
SystemBus_peek_reads(b, addr) ==
  IF Selects(ROM_SELECTOR, addr)
  THEN BusRet(b, ROM_read(b.rom, Local(addr, ROM_SELECTOR[1])), "none")
  ELSE IF Selects(RAM_SELECTOR, addr)
  THEN BusRet(b, RAM_read(b.ram, Local(addr, RAM_SELECTOR[1])), "none")
  ELSE IF Selects(PER_SELECTOR, addr)
  THEN LET r == MOS6522_read(b.per, Local(addr, PER_SELECTOR[1]))
       IN  BusRet([b EXCEPT !.per = r.dev], r.val, r.panic)
  ELSE BusRet(b, 0, "unmapped")

SystemBus_peek(b, addr) ==
  IF Selects(ROM_SELECTOR, addr)
  THEN BusRet(b, ROM_read(b.rom, Local(addr, ROM_SELECTOR[1])), "none")
  ELSE IF Selects(RAM_SELECTOR, addr)
  THEN BusRet(b, RAM_read(b.ram, Local(addr, RAM_SELECTOR[1])), "none")
  ELSE IF Selects(PER_SELECTOR, addr)
  THEN LET r == MOS6522_peek(b.per, Local(addr, PER_SELECTOR[1]))
       IN  BusRet(b, r.val, r.panic)
  ELSE BusRet(b, 0, "unmapped")

SystemBus_read(b, addr) ==
  IF Selects(ROM_SELECTOR, addr)
  THEN BusRet(b, ROM_read(b.rom, Local(addr, ROM_SELECTOR[1])), "none")
  ELSE IF Selects(RAM_SELECTOR, addr)
  THEN BusRet(b, RAM_read(b.ram, Local(addr, RAM_SELECTOR[1])), "none")
  ELSE IF Selects(PER_SELECTOR, addr)
  THEN LET r == MOS6522_read(b.per, Local(addr, PER_SELECTOR[1]))
       IN  BusRet([b EXCEPT !.per = r.dev], r.val, r.panic)
  ELSE BusRet(b, 0, "unmapped")

\* Variant of SystemBus_write: a write no selector matches goes to RAM
SystemBus_write_to_ram(b, addr, val) ==
  IF Selects(ROM_SELECTOR, addr)
  THEN BusRet(b, 0, "attempted write to ROM")
  ELSE IF Selects(PER_SELECTOR, addr)
  THEN BusRet([b EXCEPT !.per = MOS6522_write(b.per, Local(addr, PER_SELECTOR[1]), val).dev],
              0, MOS6522_write(b.per, Local(addr, PER_SELECTOR[1]), val).panic)
  ELSE BusRet([b EXCEPT !.ram = RAM_write(@, Local(addr, RAM_SELECTOR[2]), val)], 0, "none")

SystemBus_write(b, addr, val) ==
  IF Selects(ROM_SELECTOR, addr)
  THEN BusRet(b, 0, "attempted write to ROM")
  ELSE IF Selects(RAM_SELECTOR, addr)
  THEN BusRet([b EXCEPT !.ram = RAM_write(@, Local(addr, RAM_SELECTOR[2]), val)], 0, "none")
  ELSE IF Selects(PER_SELECTOR, addr)
  THEN LET r == MOS6522_write(b.per, Local(addr, PER_SELECTOR[1]), val)
       IN  BusRet([b EXCEPT !.per = r.dev], 0, r.panic)
  ELSE BusRet(b, 0, "unmapped")

\* the CPU-test harness bus peeks its RAM
TestSystemBus_peek(b, addr) == TestSystemBus_read(b, addr)

-----------------------------------------------------------------------------
(* Bus trait dispatch: BusType is the type parameter of W65C02S *)

Bus_read(b, addr) ==
  IF b.kind = "cpu_test" THEN TestSystemBus_read(b, addr)
  ELSE SystemBus_read(b, addr)

Bus_write(b, addr, val) ==
  IF b.kind = "cpu_test" THEN TestSystemBus_write(b, addr, val)
  ELSE SystemBus_write(b, addr, val)

-----------------------------------------------------------------------------
(* The W65C02S struct and its helpers *)

W65C02S_new ==
  [state |-> "Init", c |-> 0, ir |-> Opcode("NOP", "Implied", 0, 0), tcu |-> 0,
   a |-> 0, x |-> 0, y |-> 0, p |-> 0, pc |-> 0, s |-> 0,
   temp8 |-> 0, temp16 |-> 0, interrupt |-> FALSE]

is_halted(c) == c.state = "Halt"

\* the machine record on entry to a call
Machine(c, b, oc) ==
  [cpu |-> c, bus |-> b, log |-> <<>>, panic |-> "none", val |-> 0, oc |-> oc]

\* x when the call is still running, r when it has aborted
Guard(r, x) == IF r.panic = "none" THEN x ELSE r

Panic(m, why) == IF m.panic = "none" THEN [m EXCEPT !.panic = why] ELSE m

\* self.<reg> = v
Set(m, reg, v) == Guard(m, [m EXCEPT !.cpu[reg] = v])

\* self.<reg> = v for v computed in an unsigned type of the given width:
\* out of range, the operation panics with overflow checks and wraps without
SetChecked(m, reg, v, width) ==
  IF v >= 0 /\ v < width THEN Set(m, reg, v)
  ELSE IF m.oc THEN Panic(m, "overflow")
  ELSE Set(m, reg, v % width)

\* the outcome r of the bus call, logged as entry
BusDone(m, r, entry) ==
  [m EXCEPT !.log = Append(@, entry), !.bus = r.bus, !.val = r.val, !.panic = r.panic]

read(m, addr) == Guard(m, BusDone(m, Bus_read(m.bus, addr), <<"read", addr>>))

write(m, addr, val) ==
  Guard(m, BusDone(m, Bus_write(m.bus, addr, val), <<"write", addr, val>>))

\* self.read(v as u16) for v computed in u8
read_u8(m, v) ==
  IF v < 256 THEN read(m, v)
  ELSE IF m.oc THEN Panic(m, "overflow")
  ELSE read(m, v % 256)

\* self.read(v) for v computed in u16
read_u16(m, v) ==
  IF v < 65536 THEN read(m, v)
  ELSE IF m.oc THEN Panic(m, "overflow")
  ELSE read(m, v % 65536)

\* Variant: a pop that leaves S where it is
inc_s_stuck(m) == m

\* Variant: a push that does not wrap S below 0x00
dec_s_saturating(m) == Set(m, "s", IF m.cpu.s = 0 THEN 0 ELSE m.cpu.s - 1)

\* self.s = self.s.wrapping_sub(1) and self.s = self.s.wrapping_add(1)
dec_s(m) == Set(m, "s", (m.cpu.s + 255) % 256)
inc_s(m) == Set(m, "s", (m.cpu.s + 1) % 256)

stack_push(m, val) == dec_s(write(m, 256 + m.cpu.s, val))

\* Variant of stack_pop: a dummy read of the old top of stack comes first
stack_pop_dummy(m) ==
  read(inc_s(read(m, 256 + m.cpu.s)), 256 + ((m.cpu.s + 1) % 256))

stack_pop(m) == read(inc_s(m), 256 + ((m.cpu.s + 1) % 256))

stack_peek(m) == read(m, 256 + m.cpu.s)

\* self.pc += 1
inc_pc(m) == SetChecked(m, "pc", m.cpu.pc + 1, 65536)

fetch(m) == inc_pc(read(m, m.cpu.pc))

update_flag(m, flag, val) ==
  Set(m, "p", IF val THEN SetBit(m.cpu.p, flag) ELSE ClearBit(m.cpu.p, flag))

update_zero_flag(m, val) == update_flag(m, Zero, val)
update_negative_flag(m, val) == update_flag(m, Negative, HasBit(val, 128))
update_overflow_flag(m, val) == update_flag(m, Overflow, val)
update_carry_flag(m, val) == update_flag(m, Carry, val)

\* update_zero_flag(v == 0); update_negative_flag(v)
update_zn(m, v) == update_negative_flag(update_zero_flag(m, v = 0), v)

\* the same for v = self.<reg>
update_zn_of(m, reg) == update_zn(m, m.cpu[reg])

\* self.tcu += 1 and self.tcu = 0
tcu_inc(m) == Set(m, "tcu", m.cpu.tcu + 1)
tcu_zero(m) == Set(m, "tcu", 0)

\* self.<reg> = <the byte just read>
val_to(m, reg) == Set(m, reg, m.val)

\* self.<reg> = self.<reg> | (<the byte just read> as u16) << 8
val_to_high(m, reg) == Set(m, reg, BitOr(m.cpu[reg], m.val * 256))

\* the tail of branch(): taken branches go on to the offset step
branch_taken(m, flag, val) ==
  IF HasBit(m.cpu.p, flag) = val THEN tcu_inc(m) ELSE tcu_zero(m)

branch(m, flag, val) == branch_taken(val_to(fetch(m), "temp8"), flag, val)

\* Variant: the offset is added as an unsigned byte
offset_pc_unsigned(m) == SetChecked(m, "pc", m.cpu.pc + m.cpu.temp8, 65536)

\* self.pc += offset / self.pc -= |offset| for the signed 8-bit offset in
\* temp8; (offset as i16).abs() cannot overflow
offset_pc(m) ==
  SetChecked(m, "pc", IF m.cpu.temp8 < 128 THEN m.cpu.pc + m.cpu.temp8
                      ELSE m.cpu.pc - (256 - m.cpu.temp8), 65536)

\* the same with offset.abs() taken in i8: -128 has no absolute value, so
\* with overflow checks abs() panics, and without it stays -128, which
\* `as u16` turns into 0xFF80
offset_pc_i8(m) ==
  IF m.cpu.temp8 = 128
  THEN (IF m.oc THEN Panic(m, "overflow")
        ELSE SetChecked(m, "pc", m.cpu.pc - 65408, 65536))
  ELSE offset_pc(m)

\* the operand of an instruction: the next program byte in immediate mode,
\* else the byte at temp16
operand(m) ==
  IF m.cpu.ir.mode = "ImmediateAddressing" THEN fetch(m) ELSE read(m, m.cpu.temp16)
-----------------------------------------------------------------------------
(* cycle(): the arms of match self.state / match (self.ir, self.tcu).      *)
(* K(m) is the (address mode, tcu) pair an arm is selected by.             *)

K(m) == <<m.cpu.ir.mode, m.cpu.tcu>>

\* the step at which ADC, AND, CMP, EOR, LDA, ORA and SBC read their operand
AluStep ==
  { <<"ImmediateAddressing", 1>>, <<"ZeroPage", 2>>, <<"ZeroPageIndexedWithX", 3>>,
    <<"Absolute", 3>>, <<"AbsoluteIndexedWithX", 3>>, <<"AbsoluteIndexedWithY", 3>>,
    <<"ZeroPageIndexedIndirect", 5>>, <<"ZeroPageIndirectIndexedWithY", 4>>,
    <<"ZeroPageIndirect", 4>> }

\* the extra step of ADC and SBC in decimal mode
AluExtraStep ==
  { <<"ImmediateAddressing", 2>>, <<"ZeroPage", 3>>, <<"ZeroPageIndexedWithX", 4>>,
    <<"Absolute", 4>>, <<"AbsoluteIndexedWithX", 4>>, <<"AbsoluteIndexedWithY", 4>>,
    <<"ZeroPageIndexedIndirect", 6>>, <<"ZeroPageIndirectIndexedWithY", 5>>,
    <<"ZeroPageIndirect", 5>> }

\* read-modify-write instructions: read, modify and write steps
RmwRead ==
  { <<"ZeroPage", 2>>, <<"ZeroPageIndexedWithX", 3>>, <<"Absolute", 3>>,
    <<"AbsoluteIndexedWithX", 3>> }
RmwModify ==
  { <<"ZeroPage", 3>>, <<"ZeroPageIndexedWithX", 4>>, <<"Absolute", 4>>,
    <<"AbsoluteIndexedWithX", 4>> }
\* ASL, LSR, ROL, ROR idle at (a,x) step 5 and write at step 6
ShiftWrite ==
  { <<"ZeroPage", 4>>, <<"ZeroPageIndexedWithX", 5>>, <<"Absolute", 5>>,
    <<"AbsoluteIndexedWithX", 6>> }
\* DEC and INC write at (a,x) step 5
IncDecWrite ==
  { <<"ZeroPage", 4>>, <<"ZeroPageIndexedWithX", 5>>, <<"Absolute", 5>>,
    <<"AbsoluteIndexedWithX", 5>> }

\* Variant of InitArm: the byte at 0xFFFD replaces PC instead of becoming its
\* high byte
InitArm_no_shift(m) ==
  IF m.cpu.c = 5 THEN Set(val_to(read(m, 65532), "pc"), "c", 6)
  ELSE IF m.cpu.c = 6
  THEN Set(Set(val_to(read(m, 65533), "pc"), "state", "Run"), "c", 0)
  ELSE Set(m, "c", m.cpu.c + 1)

\* CPUState::Init(c)
InitArm(m) ==
  IF m.cpu.c = 5 THEN Set(val_to(read(m, 65532), "pc"), "c", 6)
  ELSE IF m.cpu.c = 6
  THEN Set(Set(val_to_high(read(m, 65533), "pc"), "state", "Run"), "c", 0)
  ELSE Set(m, "c", m.cpu.c + 1)

\* Variant of fetched: every NOP completes in its fetch tick
fetched_any_nop(m) ==
  IF m.cpu.ir.ins = "NOP" THEN tcu_zero(m) ELSE tcu_inc(m)

\* the tail of the fetch arm: one-byte one-cycle NOPs complete at once
fetched(m) ==
  IF m.cpu.ir.ins = "NOP" /\ m.cpu.ir.n = 1 /\ m.cpu.ir.c = 1
  THEN tcu_zero(m) ELSE tcu_inc(m)

\* self.ir = decode(<the byte just read>)
decode_val(m) == Set(m, "ir", Decode(m.val))

\* Variant of FetchArm: the interrupt input is taken whatever the
\* InterruptDisable flag
FetchArm_ignores_irqb(m) ==
  IF m.cpu.interrupt
  THEN tcu_inc(Set(m, "ir", Opcode("BRK", "Implied", 0, 0)))
  ELSE fetched(decode_val(fetch(m)))

\* (_, 0): interrupt entry or opcode fetch
FetchArm(m) ==
  IF ~HasBit(m.cpu.p, IRQB) /\ m.cpu.interrupt
  THEN tcu_inc(Set(m, "ir", Opcode("BRK", "Implied", 0, 0)))
  ELSE fetched(decode_val(fetch(m)))

\* Unimplemented: no arm matches (self.ir, self.tcu)
Unimplemented(m) == Panic(Set(m, "state", "Halt"), "unimplemented")

\* self.temp16 += self.<reg> as u16
add_temp16(m, reg) == SetChecked(m, "temp16", m.cpu.temp16 + m.cpu[reg], 65536)

\* self.temp16 = (self.temp16 + (self.<reg> as u16)) % 0x100
add_zero_page(m, reg) ==
  IF m.cpu.temp16 + m.cpu[reg] >= 65536 /\ m.oc THEN Panic(m, "overflow")
  ELSE Set(m, "temp16", ((m.cpu.temp16 + m.cpu[reg]) % 65536) % 256)

\* Defaults based on Address Mode
AddressModeArm(m) ==
  LET k == K(m)
  IN  IF k \in { <<"Absolute", 1>>, <<"AbsoluteIndexedIndirect", 1>>,
                 <<"AbsoluteIndexedWithX", 1>>, <<"AbsoluteIndexedWithY", 1>>,
                 <<"AbsoluteIndirect", 1>>, <<"ZeroPage", 1>>,
                 <<"ZeroPageIndexedWithX", 1>>, <<"ZeroPageIndexedWithY", 1>> }
      THEN tcu_inc(val_to(fetch(m), "temp16"))
      ELSE IF k \in { <<"Absolute", 2>>, <<"AbsoluteIndirect", 2>> }
      THEN tcu_inc(val_to_high(fetch(m), "temp16"))
      ELSE IF k \in { <<"AbsoluteIndexedWithX", 2>>, <<"AbsoluteIndexedIndirect", 2>> }
      THEN tcu_inc(add_temp16(val_to_high(fetch(m), "temp16"), "x"))
      ELSE IF k = <<"AbsoluteIndexedWithY", 2>>
      THEN tcu_inc(add_temp16(val_to_high(fetch(m), "temp16"), "y"))
      ELSE IF k = <<"ProgramCounterRelative", 2>>
      THEN tcu_zero(offset_pc(m))
      ELSE IF k = <<"ZeroPageIndexedWithX", 2>>
      THEN tcu_inc(add_zero_page(m, "x"))
      ELSE IF k = <<"ZeroPageIndexedWithY", 2>>
      THEN tcu_inc(add_zero_page(m, "y"))
      ELSE IF k \in { <<"ZeroPageIndexedIndirect", 1>>, <<"ZeroPageIndirect", 1>>,
                      <<"ZeroPageIndirectIndexedWithY", 1>> }
      THEN tcu_inc(val_to(fetch(m), "temp8"))
      ELSE IF k = <<"ZeroPageIndexedIndirect", 2>>
      THEN tcu_inc(Set(m, "temp8", (m.cpu.temp8 + m.cpu.x) % 256))
      ELSE IF k \in { <<"ZeroPageIndexedIndirect", 3>>, <<"ZeroPageIndirect", 2>>,
                      <<"ZeroPageIndirectIndexedWithY", 2>> }
      THEN tcu_inc(val_to(read(m, m.cpu.temp8), "temp16"))
      ELSE IF k \in { <<"ZeroPageIndexedIndirect", 4>>, <<"ZeroPageIndirect", 3>> }
      THEN tcu_inc(val_to_high(read_u8(m, m.cpu.temp8 + 1), "temp16"))
      ELSE IF k = <<"ZeroPageIndirectIndexedWithY", 3>>
      THEN tcu_inc(add_temp16(val_to_high(read_u8(m, m.cpu.temp8 + 1), "temp16"), "y"))
      ELSE Unimplemented(m)

\* no arm of the instruction matches: the match goes on to the defaults
NoArm(m) == [m EXCEPT !.panic = "no arm"]

-----------------------------------------------------------------------------
(* Instruction arms.  Each operator is the group of arms of one            *)
(* instruction (or of instructions whose arms are the same text); where no *)
(* arm of the instruction matches it leaves NoArm.                         *)

\* self.temp8 = self.read(self.temp16); self.tcu += 1
ReadTemp8(m) == tcu_inc(val_to(read(m, m.cpu.temp16), "temp8"))

\* self.write(self.temp16, val); self.tcu = 0
WriteBack(m, val) == tcu_zero(write(m, m.cpu.temp16, val))

\* Variant: Overflow taken from the carry out
SignedOverflow_carry(sum, op1, op2) == sum >= 256

\* ((sum ^ op1) & (sum ^ op2)) & 0x80 == 0x80
SignedOverflow(sum, op1, op2) ==
  HasBit(BitAnd(BitXor(sum, op1), BitXor(sum, op2)), 128)

\* op1 + op2 + carry in u16, wrapping
BinarySum(op1, op2, carry) == (op1 + op2 + carry) % 65536

\* Variant: the decimal sum without the adjustment of the high digit
DecimalSum_low_only(op1, op2, carry) ==
  LET lo  == ((op1 % 16) + (op2 % 16) + carry) % 65536
      lo2 == IF lo > 9 THEN (lo + 6) % 65536 ELSE lo
  IN  (lo2 + BitAnd(op1, 240) + BitAnd(op2, 240)) % 65536

\* the decimal sum with its two adjustments, in u16
DecimalSum(op1, op2, carry) ==
  LET lo  == ((op1 % 16) + (op2 % 16) + carry) % 65536
      lo2 == IF lo > 9 THEN (lo + 6) % 65536 ELSE lo
      hi  == (lo2 + BitAnd(op1, 240) + BitAnd(op2, 240)) % 65536
  IN  IF (hi \div 16) > 9 THEN (hi + 96) % 65536 ELSE hi

\* self.a = sum as u8 and the four flags; carry is bit 8 in binary mode
\* and any of bits 8..15 in decimal mode
SetSum(m, sum, op1, op2, carry) ==
  update_overflow_flag(
    update_carry_flag(update_zn(Set(m, "a", sum % 256), sum % 256), carry),
    SignedOverflow(sum, op1, op2))

AddBinary(m, op1, op2) ==
  tcu_zero(SetSum(m, BinarySum(op1, op2, BitAnd(m.cpu.p, Carry)), op1, op2,
                  HasBit(BinarySum(op1, op2, BitAnd(m.cpu.p, Carry)), 256)))

AddDecimal(m, op1, op2) ==
  tcu_inc(SetSum(m, DecimalSum(op1, op2, BitAnd(m.cpu.p, Carry)), op1, op2,
                 DecimalSum(op1, op2, BitAnd(m.cpu.p, Carry)) >= 256))

\* 0x99 - op2 with the two decimal adjustments
NinesComplement(op2) ==
  LET n0 == (153 - op2) % 65536
      n1 == IF (n0 % 16) > 9 THEN (n0 + 6) % 65536 ELSE n0
  IN  IF (n1 \div 16) > 9 THEN (n1 + 96) % 65536 ELSE n1

\* the sum of ADC once the operand has been read
adc_sum(m) ==
  IF ~HasBit(m.cpu.p, Decimal) THEN AddBinary(m, m.cpu.a, m.val)
  ELSE AddDecimal(m, m.cpu.a, m.val)

\* Variant: SBC adds the operand as it is
sbc_sum_plain(m) == adc_sum(m)

\* the sum of SBC once the operand has been read
sbc_sum(m) ==
  IF ~HasBit(m.cpu.p, Decimal) THEN AddBinary(m, m.cpu.a, 255 - m.val)
  ELSE AddDecimal(m, m.cpu.a, NinesComplement(m.val))

\* the extra cycle of ADC and SBC
ExtraCycle(m) ==
  IF ~HasBit(m.cpu.p, Decimal) THEN Panic(m, "extra cycle outside decimal mode")
  ELSE tcu_zero(m)

ADC(m) ==
  IF K(m) \in AluStep THEN adc_sum(operand(m))
  ELSE IF K(m) \in AluExtraStep THEN ExtraCycle(m)
  ELSE NoArm(m)

SBC(m) ==
  IF K(m) \in AluStep THEN sbc_sum(operand(m))
  ELSE IF K(m) \in AluExtraStep THEN ExtraCycle(m)
  ELSE NoArm(m)

\* AND, EOR, ORA, LDA: self.a = f(self.a, operand)
Combine(ins, a, val) ==
  CASE ins = "AND" -> BitAnd(a, val)
    [] ins = "EOR" -> BitXor(a, val)
    [] ins = "ORA" -> BitOr(a, val)
    [] OTHER       -> val

combine_val(m) == Set(m, "a", Combine(m.cpu.ir.ins, m.cpu.a, m.val))

Logic(m) ==
  IF K(m) \in AluStep THEN tcu_zero(update_zn_of(combine_val(operand(m)), "a"))
  ELSE NoArm(m)

LdxStep ==
  { <<"ImmediateAddressing", 1>>, <<"ZeroPage", 2>>, <<"ZeroPageIndexedWithY", 3>>,
    <<"Absolute", 3>>, <<"AbsoluteIndexedWithY", 3>> }
LdyStep ==
  { <<"ImmediateAddressing", 1>>, <<"ZeroPage", 2>>, <<"ZeroPageIndexedWithX", 3>>,
    <<"Absolute", 3>>, <<"AbsoluteIndexedWithX", 3>> }

\* LDX and LDY
Load(m, reg, steps) ==
  IF K(m) \in steps THEN tcu_zero(update_zn_of(val_to(operand(m), reg), reg))
  ELSE NoArm(m)

\* the shifted value and the bit shifted out, with carry-in c
Shifted(ins, v, c) ==
  CASE ins = "ASL" -> (v * 2) % 256
    [] ins = "LSR" -> v \div 2
    [] ins = "ROL" -> BitOr((v * 2) % 256, c)
    [] OTHER       -> BitOr(v \div 2, c * 128)
ShiftedOut(ins, v) == IF ins \in {"ASL", "ROL"} THEN HasBit(v, 128) ELSE HasBit(v, 1)

\* the shift of self.<reg>: carry, value, zero and negative flags
shift_reg(m, reg) ==
  update_zn(Set(update_carry_flag(m, ShiftedOut(m.cpu.ir.ins, m.cpu[reg])),
                reg, Shifted(m.cpu.ir.ins, m.cpu[reg], BitAnd(m.cpu.p, 1))),
            Shifted(m.cpu.ir.ins, m.cpu[reg], BitAnd(m.cpu.p, 1)))

\* ASL, LSR, ROL, ROR
Shift(m) ==
  IF K(m) = <<"Accumulator", 1>> THEN tcu_zero(shift_reg(m, "a"))
  ELSE IF K(m) \in RmwRead THEN ReadTemp8(m)
  ELSE IF K(m) \in RmwModify THEN tcu_inc(shift_reg(m, "temp8"))
  ELSE IF K(m) = <<"AbsoluteIndexedWithX", 5>> THEN tcu_inc(m)
  ELSE IF K(m) \in ShiftWrite THEN WriteBack(m, m.cpu.temp8)
  ELSE NoArm(m)

\* self.<reg> = self.<reg>.wrapping_add(d) and the zero and negative flags
step_reg(m, reg, d) ==
  update_zn(Set(m, reg, (m.cpu[reg] + d) % 256), (m.cpu[reg] + d) % 256)

\* DEC (d = 255, wrapping_sub(1)) and INC (d = 1, wrapping_add(1))
IncDec(m, d) ==
  IF K(m) = <<"Accumulator", 1>> THEN tcu_zero(step_reg(m, "a", d))
  ELSE IF K(m) \in RmwRead THEN ReadTemp8(m)
  ELSE IF K(m) \in RmwModify THEN tcu_inc(step_reg(m, "temp8", d))
  ELSE IF K(m) \in IncDecWrite THEN WriteBack(m, m.cpu.temp8)
  ELSE NoArm(m)

\* DEX, DEY, INX, INY
IncDecReg(m, reg, d) ==
  IF K(m) = <<"Implied", 1>> THEN tcu_zero(step_reg(m, reg, d)) ELSE NoArm(m)

\* TAX, TAY, TSX, TXA, TYA (flags updated) and TXS (flags untouched)
Transfer(m, from, to) ==
  IF K(m) # <<"Implied", 1>> THEN NoArm(m)
  ELSE IF to = "s" THEN tcu_zero(Set(m, to, m.cpu[from]))
  ELSE tcu_zero(update_zn(Set(m, to, m.cpu[from]), m.cpu[from]))

\* CLC, CLD, CLI, CLV, SEC, SED, SEI
FlagOp(m, flag, val) ==
  IF K(m) = <<"Implied", 1>> THEN tcu_zero(update_flag(m, flag, val)) ELSE NoArm(m)

CpxStep == { <<"ImmediateAddressing", 1>>, <<"ZeroPage", 2>>, <<"Absolute", 3>> }

\* the flags of a comparison of self.<reg> with temp8
compare_flags(m, reg) ==
  update_zn(update_carry_flag(m, m.cpu[reg] >= m.cpu.temp8),
            (m.cpu[reg] + 256 - m.cpu.temp8) % 256)

\* CMP, CPX, CPY
Compare(m, reg, steps) ==
  IF K(m) \in steps THEN tcu_zero(compare_flags(val_to(operand(m), "temp8"), reg))
  ELSE NoArm(m)

BitStep ==
  { <<"ImmediateAddressing", 1>>, <<"ZeroPage", 2>>, <<"ZeroPageIndexedWithX", 3>>,
    <<"Absolute", 3>>, <<"AbsoluteIndexedWithX", 3>> }

\* the flags of BIT once the operand has been read
bit_flags(m) ==
  IF m.cpu.ir.mode # "ImmediateAddressing"
  THEN update_negative_flag(
         update_overflow_flag(update_zero_flag(m, BitAnd(m.cpu.a, m.val) = 0),
                              HasBit(m.val, 64)), m.val)
  ELSE update_zero_flag(m, BitAnd(m.cpu.a, m.val) = 0)

BIT(m) ==
  IF K(m) \in BitStep THEN tcu_zero(bit_flags(operand(m))) ELSE NoArm(m)

\* the branch of BBR/BBS once the tested byte is in temp16
bit_branch_taken(m, set) ==
  IF HasBit(m.cpu.temp16, Pow2(m.cpu.ir.n)) = set THEN tcu_zero(offset_pc_i8(m))
  ELSE tcu_zero(m)

\* BBR(n) (set = FALSE) and BBS(n) (set = TRUE)
BitBranch(m, set) ==
  IF K(m) = <<"ProgramCounterRelative", 1>> THEN tcu_inc(val_to(fetch(m), "temp16"))
  ELSE IF K(m) = <<"ProgramCounterRelative", 2>> THEN tcu_inc(val_to(fetch(m), "temp8"))
  ELSE IF K(m) = <<"ProgramCounterRelative", 3>>
  THEN tcu_inc(val_to(read(m, m.cpu.temp16), "temp16"))
  ELSE IF K(m) = <<"ProgramCounterRelative", 4>> THEN bit_branch_taken(m, set)
  ELSE NoArm(m)

\* BCC, BCS, BEQ, BMI, BNE, BPL, BVC, BVS
Bcond(m, flag, val) ==
  IF K(m) = <<"ProgramCounterRelative", 1>> THEN branch(m, flag, val) ELSE NoArm(m)

BRA(m) ==
  IF K(m) = <<"ProgramCounterRelative", 1>> THEN tcu_inc(val_to(fetch(m), "temp8"))
  ELSE NoArm(m)

\* Variant: a PHP that pushes P as it is
PushedP_plain(m) == m.cpu.p

\* self.p | BRK | User, the byte BRK and PHP push
PushedP(m) == SetBit(SetBit(m.cpu.p, BRK), User)

\* Variant of BRK_arm: interrupt entry also skips a signature byte
BRK_arm_signature(m) ==
  IF m.cpu.tcu = 1 THEN tcu_inc(fetch(m))
  ELSE IF m.cpu.tcu = 2 THEN tcu_inc(stack_push(m, m.cpu.pc \div 256))
  ELSE IF m.cpu.tcu = 3 THEN tcu_inc(stack_push(m, m.cpu.pc % 256))
  ELSE IF m.cpu.tcu = 4 THEN tcu_inc(stack_push(m, PushedP(m)))
  ELSE IF m.cpu.tcu = 5
  THEN tcu_inc(val_to(read(Set(m, "p", ClearBit(SetBit(m.cpu.p, IRQB), Decimal)), 65534),
                      "pc"))
  ELSE IF m.cpu.tcu = 6 THEN tcu_zero(val_to_high(read(m, 65535), "pc"))
  ELSE NoArm(m)

BRK_arm(m) ==
  IF K(m) = <<"Implied", 1>> THEN tcu_inc(m)
  ELSE IF K(m) = <<"Stack", 1>> THEN tcu_inc(fetch(Set(m, "p", SetBit(m.cpu.p, BRK))))
  ELSE IF m.cpu.tcu = 2 THEN tcu_inc(stack_push(m, m.cpu.pc \div 256))
  ELSE IF m.cpu.tcu = 3 THEN tcu_inc(stack_push(m, m.cpu.pc % 256))
  ELSE IF m.cpu.tcu = 4 THEN tcu_inc(stack_push(m, PushedP(m)))
  ELSE IF m.cpu.tcu = 5
  THEN tcu_inc(val_to(read(Set(m, "p", ClearBit(SetBit(m.cpu.p, IRQB), Decimal)), 65534),
                      "pc"))
  ELSE IF m.cpu.tcu = 6 THEN tcu_zero(val_to_high(read(m, 65535), "pc"))
  ELSE NoArm(m)

\* self.pc = self.temp16 | <the byte just read> << 8
jump_val(m) == Set(m, "pc", BitOr(m.cpu.temp16, m.val * 256))

JMP(m) ==
  IF K(m) = <<"Absolute", 2>> THEN tcu_zero(jump_val(fetch(m)))
  ELSE IF K(m) \in { <<"AbsoluteIndirect", 3>>, <<"AbsoluteIndexedIndirect", 3>> }
  THEN ReadTemp8(m)
  ELSE IF K(m) = <<"AbsoluteIndexedIndirect", 4>> THEN tcu_inc(m)
  ELSE IF K(m) \in { <<"AbsoluteIndirect", 4>>, <<"AbsoluteIndexedIndirect", 5>> }
  THEN tcu_zero(val_to_high(read_u16(Set(m, "pc", m.cpu.temp8), m.cpu.temp16 + 1), "pc"))
  ELSE NoArm(m)

\* Variant: a jump that misses the target by one
jump_temp16_off(m) == Set(m, "pc", (m.cpu.temp16 + 1) % 65536)

\* self.pc = self.temp16
jump_temp16(m) == Set(m, "pc", m.cpu.temp16)

JSR(m) ==
  IF K(m) = <<"Absolute", 1>> THEN tcu_inc(val_to(fetch(m), "temp16"))
  ELSE IF K(m) = <<"Absolute", 2>> THEN tcu_inc(stack_peek(m))
  ELSE IF K(m) = <<"Absolute", 3>> THEN tcu_inc(stack_push(m, m.cpu.pc \div 256))
  ELSE IF K(m) = <<"Absolute", 4>> THEN tcu_inc(stack_push(m, m.cpu.pc % 256))
  ELSE IF K(m) = <<"Absolute", 5>>
  THEN tcu_zero(jump_temp16(val_to_high(fetch(m), "temp16")))
  ELSE NoArm(m)

\* the end of a NOP step that began at tcu: self.tcu += 1, and
\* self.tcu = 0 if tcu == cycles
nop_tcu(m, tcu) == IF tcu = m.cpu.ir.c THEN tcu_zero(m) ELSE tcu_inc(m)

\* NOP(bytes, cycles) at any tcu
NOP(m) ==
  IF m.cpu.ir.mode # "Implied" THEN NoArm(m)
  ELSE IF m.cpu.tcu < m.cpu.ir.n THEN nop_tcu(fetch(m), m.cpu.tcu)
  ELSE nop_tcu(m, m.cpu.tcu)

\* PHA, PHP, PHX, PHY
Push(m, val) ==
  IF K(m) = <<"Stack", 1>> THEN tcu_inc(stack_push(m, val))
  ELSE IF K(m) = <<"Stack", 2>> THEN tcu_zero(m)
  ELSE NoArm(m)

\* PLA, PLX, PLY (flags updated at step 2) and PLP
Pull(m, reg) ==
  IF K(m) = <<"Stack", 1>> THEN tcu_inc(val_to(stack_pop(m), reg))
  ELSE IF K(m) = <<"Stack", 2>>
  THEN (IF reg = "p" THEN tcu_inc(m) ELSE tcu_inc(update_zn_of(m, reg)))
  ELSE IF K(m) = <<"Stack", 3>> THEN tcu_zero(m)
  ELSE NoArm(m)

\* RMB(n) (set = FALSE) and SMB(n) (set = TRUE)
BitModify(m, set) ==
  IF K(m) = <<"ZeroPage", 2>> THEN ReadTemp8(m)
  ELSE IF K(m) = <<"ZeroPage", 3>>
  THEN tcu_inc(Set(m, "temp8", IF set THEN SetBit(m.cpu.temp8, Pow2(m.cpu.ir.n))
                               ELSE ClearBit(m.cpu.temp8, Pow2(m.cpu.ir.n))))
  ELSE IF K(m) = <<"ZeroPage", 4>> THEN WriteBack(m, m.cpu.temp8)
  ELSE NoArm(m)

\* TRB (set = FALSE) and TSB (set = TRUE)
TestBits(m, set) ==
  IF K(m) \in { <<"ZeroPage", 2>>, <<"Absolute", 3>> } THEN ReadTemp8(m)
  ELSE IF K(m) \in { <<"ZeroPage", 3>>, <<"Absolute", 4>> }
  THEN tcu_inc(Set(update_zero_flag(m, BitAnd(m.cpu.temp8, m.cpu.a) = 0), "temp8",
                   IF set THEN BitOr(m.cpu.temp8, m.cpu.a)
                   ELSE BitAnd(m.cpu.temp8, 255 - m.cpu.a)))
  ELSE IF K(m) \in { <<"ZeroPage", 4>>, <<"Absolute", 5>> } THEN WriteBack(m, m.cpu.temp8)
  ELSE NoArm(m)

RTI(m) ==
  IF K(m) = <<"Stack", 1>> THEN tcu_inc(val_to(stack_pop(m), "p"))
  ELSE IF K(m) \in { <<"Stack", 2>>, <<"Stack", 4>> } THEN tcu_inc(m)
  ELSE IF K(m) = <<"Stack", 3>> THEN tcu_inc(val_to(stack_pop(m), "pc"))
  ELSE IF K(m) = <<"Stack", 5>> THEN tcu_zero(val_to_high(stack_pop(m), "pc"))
  ELSE NoArm(m)

RTS(m) ==
  IF K(m) = <<"Stack", 1>> THEN tcu_inc(fetch(m))
  ELSE IF K(m) = <<"Stack", 2>> THEN tcu_inc(stack_peek(m))
  ELSE IF K(m) = <<"Stack", 3>> THEN tcu_inc(val_to(stack_pop(m), "temp16"))
  ELSE IF K(m) = <<"Stack", 4>> THEN tcu_inc(val_to_high(stack_pop(m), "temp16"))
  ELSE IF K(m) = <<"Stack", 5>> THEN tcu_zero(fetch(jump_temp16(m)))
  ELSE NoArm(m)

StaIdle ==
  { <<"AbsoluteIndexedWithX", 3>>, <<"AbsoluteIndexedWithY", 3>>,
    <<"ZeroPageIndirectIndexedWithY", 4>> }
StaWrite ==
  { <<"ZeroPage", 2>>, <<"ZeroPageIndexedWithX", 3>>, <<"Absolute", 3>>,
    <<"AbsoluteIndexedWithX", 4>>, <<"AbsoluteIndexedWithY", 4>>,
    <<"ZeroPageIndexedIndirect", 5>>, <<"ZeroPageIndirectIndexedWithY", 5>>,
    <<"ZeroPageIndirect", 4>> }
StxWrite == { <<"ZeroPage", 2>>, <<"ZeroPageIndexedWithY", 3>>, <<"Absolute", 3>> }
StyWrite == { <<"ZeroPage", 2>>, <<"ZeroPageIndexedWithX", 3>>, <<"Absolute", 3>> }
StzWrite ==
  { <<"ZeroPage", 2>>, <<"ZeroPageIndexedWithX", 3>>, <<"Absolute", 3>>,
    <<"AbsoluteIndexedWithX", 3>> }

STA(m) ==
  IF K(m) \in StaIdle THEN tcu_inc(m)
  ELSE IF K(m) \in StaWrite THEN WriteBack(m, m.cpu.a)
  ELSE NoArm(m)

\* STX, STY, STZ
Store(m, steps, val) ==
  IF K(m) \in steps THEN WriteBack(m, val) ELSE NoArm(m)

STP(m) ==
  IF K(m) = <<"Implied", 1>> THEN tcu_inc(m)
  ELSE IF K(m) = <<"Implied", 2>> THEN Set(m, "state", "Halt")
  ELSE NoArm(m)

WAI(m) ==
  IF K(m) = <<"Implied", 1>> THEN tcu_inc(m)
  ELSE IF K(m) = <<"Implied", 2>>
  THEN tcu_zero(Set(Set(m, "p", SetBit(m.cpu.p, BRK)), "state", "Wait"))
  ELSE NoArm(m)

\* the arms written for the instruction in IR
InstructionArm(m) ==
  LET i == m.cpu.ir.ins
      c == m.cpu
  IN  CASE i = "ADC" -> ADC(m)
        [] i \in {"AND", "EOR", "LDA", "ORA"} -> Logic(m)
        [] i \in {"ASL", "LSR", "ROL", "ROR"} -> Shift(m)
        [] i = "BBR" -> BitBranch(m, FALSE)
        [] i = "BBS" -> BitBranch(m, TRUE)
        [] i = "BCC" -> Bcond(m, Carry, FALSE)
        [] i = "BCS" -> Bcond(m, Carry, TRUE)
        [] i = "BEQ" -> Bcond(m, Zero, TRUE)
        [] i = "BIT" -> BIT(m)
        [] i = "BMI" -> Bcond(m, Negative, TRUE)
        [] i = "BNE" -> Bcond(m, Zero, FALSE)
        [] i = "BPL" -> Bcond(m, Negative, FALSE)
        [] i = "BRA" -> BRA(m)
        [] i = "BRK" -> BRK_arm(m)
        [] i = "BVC" -> Bcond(m, Overflow, FALSE)
        [] i = "BVS" -> Bcond(m, Overflow, TRUE)
        [] i = "CLC" -> FlagOp(m, Carry, FALSE)
        [] i = "CLD" -> FlagOp(m, Decimal, FALSE)
        [] i = "CLI" -> FlagOp(m, IRQB, FALSE)
        [] i = "CLV" -> FlagOp(m, Overflow, FALSE)
        [] i = "CMP" -> Compare(m, "a", AluStep)
        [] i = "CPX" -> Compare(m, "x", CpxStep)
        [] i = "CPY" -> Compare(m, "y", CpxStep)
        [] i = "DEC" -> IncDec(m, 255)
        [] i = "DEX" -> IncDecReg(m, "x", 255)
        [] i = "DEY" -> IncDecReg(m, "y", 255)
        [] i = "INC" -> IncDec(m, 1)
        [] i = "INX" -> IncDecReg(m, "x", 1)
        [] i = "INY" -> IncDecReg(m, "y", 1)
        [] i = "JMP" -> JMP(m)
        [] i = "JSR" -> JSR(m)
        [] i = "LDX" -> Load(m, "x", LdxStep)
        [] i = "LDY" -> Load(m, "y", LdyStep)
        [] i = "NOP" -> NOP(m)
        [] i = "PHA" -> Push(m, c.a)
        [] i = "PHP" -> Push(m, PushedP(m))
        [] i = "PHX" -> Push(m, c.x)
        [] i = "PHY" -> Push(m, c.y)
        [] i = "PLA" -> Pull(m, "a")
        [] i = "PLP" -> Pull(m, "p")
        [] i = "PLX" -> Pull(m, "x")
        [] i = "PLY" -> Pull(m, "y")
        [] i = "RMB" -> BitModify(m, FALSE)
        [] i = "RTI" -> RTI(m)
        [] i = "RTS" -> RTS(m)
        [] i = "SBC" -> SBC(m)
        [] i = "SEC" -> FlagOp(m, Carry, TRUE)
        [] i = "SED" -> FlagOp(m, Decimal, TRUE)
        [] i = "SEI" -> FlagOp(m, IRQB, TRUE)
        [] i = "SMB" -> BitModify(m, TRUE)
        [] i = "STA" -> STA(m)
        [] i = "STP" -> STP(m)
        [] i = "STX" -> Store(m, StxWrite, c.x)
        [] i = "STY" -> Store(m, StyWrite, c.y)
        [] i = "STZ" -> Store(m, StzWrite, 0)
        [] i = "TAX" -> Transfer(m, "a", "x")
        [] i = "TAY" -> Transfer(m, "a", "y")
        [] i = "TRB" -> TestBits(m, FALSE)
        [] i = "TSB" -> TestBits(m, TRUE)
        [] i = "TSX" -> Transfer(m, "s", "x")
        [] i = "TXA" -> Transfer(m, "x", "a")
        [] i = "TXS" -> Transfer(m, "x", "s")
        [] i = "TYA" -> Transfer(m, "y", "a")
        [] i = "WAI" -> WAI(m)
        [] OTHER -> NoArm(m)

\* the defaults, where the instruction has no arm at (mode, tcu)
Fallthrough(r, m) == IF r.panic = "no arm" THEN AddressModeArm(m) ELSE r

\* CPUState::Run: match (self.ir, self.tcu)
RunArm(m) ==
  IF m.cpu.tcu = 0 THEN FetchArm(m) ELSE Fallthrough(InstructionArm(m), m)

\* Variant of WaitArm: the interrupt input wakes the CPU whatever the
\* InterruptDisable flag
WaitArm_ignores_irqb(m) ==
  IF m.cpu.interrupt
  THEN Set(Set(Set(m, "ir", Opcode("BRK", "Implied", 0, 0)), "tcu", 1), "state", "Run")
  ELSE m

\* CPUState::Wait
WaitArm(m) ==
  IF ~HasBit(m.cpu.p, IRQB) /\ m.cpu.interrupt
  THEN Set(Set(Set(m, "ir", Opcode("BRK", "Implied", 0, 0)), "tcu", 1), "state", "Run")
  ELSE m

\* Variant of HaltArm: an interrupt wakes a halted CPU as it wakes a waiting one
HaltArm_wakes(m) == WaitArm(m)

\* CPUState::Halt
HaltArm(m) == m

\* pub fn cycle(&mut self)
cycle(m) ==
  CASE m.cpu.state = "Init" -> InitArm(m)
    [] m.cpu.state = "Run"  -> RunArm(m)
    [] m.cpu.state = "Wait" -> WaitArm(m)
    [] OTHER                -> HaltArm(m)

\* pub fn set_interrupt(&mut self, val: bool)
set_interrupt(c, val) == [c EXCEPT !.interrupt = val]
-----------------------------------------------------------------------------
(* The breadboard tick: BreadboardSystem::cycle() *)

\* MOS6522::set_interrupt: the flag and bit 7 of IFR, whatever IER holds
MOS6522_set_interrupt(per, i) == [per EXCEPT !.ifr = BitOr(BitOr(@, i), 128)]

\* the value cycle() returns: (self.ifr & self.ier) != 0
irq_out(per) == Ret(per, BitAnd(per.ifr, per.ier) # 0, "none")

\* a free-run timer that is never reloaded
t1_expired_no_reload(per) ==
  IF per.acr \div 64 < 2 THEN irq_out(per) ELSE Ret(per, FALSE, "unimplemented")

\* Timer 1 has run out: the flag, then the mode in ACR bits 7..6
t1_expired(per) ==
  IF per.acr \div 64 = 0 THEN irq_out(per)
  ELSE IF per.acr \div 64 = 1 THEN irq_out([per EXCEPT !.t1c = per.t1l])
  ELSE Ret(per, FALSE, "unimplemented")

\* MOS6522::cycle()
MOS6522_cycle(per) ==
  IF per.t1c > 0 THEN irq_out([per EXCEPT !.t1c = @ - 1])
  ELSE t1_expired(MOS6522_set_interrupt(per, T1))

\* HD44780::cycle(): Busy(0) becomes Idle, Busy(n) becomes Busy(n - 1)
HD44780_cycle(dsp) == IF dsp.busy >= 0 THEN [dsp EXCEPT !.busy = @ - 1] ELSE dsp

\* the adapter has stepped with outcome r: cpu.set_interrupt(per_int)
per_stepped(m, r) ==
  [m EXCEPT !.bus.per = r.dev, !.cpu = set_interrupt(@, r.val), !.panic = r.panic]

\* let per_int = self.cpu.bus.per.cycle(); self.cpu.set_interrupt(per_int)
per_cycle(m) == Guard(m, per_stepped(m, MOS6522_cycle(m.bus.per)))

\* self.cpu.bus.per.ports.dsp.cycle()
dsp_cycle(m) == Guard(m, [m EXCEPT !.bus.per.ports.dsp = HD44780_cycle(@)])

\* the adapter steps before the CPU cycle
BreadboardSystem_cycle_per_first(m) == dsp_cycle(cycle(per_cycle(m)))

\* BreadboardSystem::cycle()
BreadboardSystem_cycle(m) == dsp_cycle(per_cycle(cycle(m)))

-----------------------------------------------------------------------------
(* Specifications *)

\* the entry address main.rs gives the CPU-test harness
Entry == 1024

\* the entry address of the reset-vector scenario: 0x1234, the word of the
\* vector bytes 0x34 and 0x12
ScenarioEntry == 18 * 256 + 52

\* Program images: one instruction at the entry address, optionally after
\* SED or SEI, followed by two operand bytes; every other byte of the image
\* is STP (0xDB), so a run that leaves the program halts.
Prefixes == { <<>>, <<248>>, <<120>> }
Images ==
  { [org |-> Entry, code |-> p \o <<op, 16, 2>>, fill |-> 219] :
      p \in Prefixes, op \in 0..255 }
  \cup { [org |-> Entry, code |-> <<op, 255, 255>>, fill |-> 219] : op \in 0..255 }
  \cup { [org |-> ScenarioEntry, code |-> <<234>>, fill |-> 219] }

\* Debugger::new(sys): no breakpoints, at the prompt
Debugger_new ==
  [breakpoints |-> <<>>, cmd |-> "none", at |-> "prompt", skip_breakpoints |-> 0,
   depth |-> 0, key |-> "none", arg |-> 0]

\* W65C02S::new(SystemBus::new(ram_path, entry_address))
Init ==
  /\ \E img \in Images : bus = TestSystemBus_new(img, img.org)
  /\ cpu = W65C02S_new
  /\ log = <<>>
  /\ fault = "none"
  /\ overflow_checks \in BOOLEAN
  /\ ticks = 0
  /\ prev = W65C02S_new
  /\ dbg = Debugger_new

\* the call has left machine m
Returned(m) ==
  /\ cpu' = m.cpu
  /\ bus' = m.bus
  /\ log' = m.log
  /\ fault' = m.panic

\* CPUTestSystem::cycle(): one call of cpu.cycle(), in a run followed for
\* at most limit calls
SystemCycle(limit) ==
  /\ fault = "none"
  /\ ticks < limit
  /\ Returned(cycle(Machine(cpu, bus, overflow_checks)))
  /\ prev' = cpu
  /\ ticks' = ticks + 1
  /\ UNCHANGED overflow_checks

\* the system stepped by its owner, no debugger command in progress
StepCycle(limit) ==
  /\ SystemCycle(limit)
  /\ UNCHANGED dbg

Cycle == StepCycle(MaxTicks)

\* one call of cpu.set_interrupt(val) that changes the input
SetInterrupt ==
  /\ fault = "none"
  /\ \E val \in BOOLEAN :
       /\ val # cpu.interrupt
       /\ cpu' = set_interrupt(cpu, val)
  /\ UNCHANGED <<bus, log, fault, overflow_checks, ticks, prev, dbg>>

\* the CPU with a host that drives the interrupt input
Next == Cycle \/ SetInterrupt
Spec == Init /\ [][Next]_vars

\* the CPU-test harness: CPUTestSystem::cycle() only calls cpu.cycle()
NextTest == Cycle
SpecTest == Init /\ [][NextTest]_vars

-----------------------------------------------------------------------------
(* Every arm of cycle(): the fields of W65C02S are public, so a CPU struct *)
(* can hold any (IR, TCU) pair in any state.                               *)

AddressModes ==
  { "Absolute", "AbsoluteIndexedIndirect", "AbsoluteIndexedWithX",
    "AbsoluteIndexedWithY", "AbsoluteIndirect", "Accumulator",
    "ImmediateAddressing", "Implied", "ProgramCounterRelative", "Stack",
    "ZeroPage", "ZeroPageIndexedIndirect", "ZeroPageIndexedWithX",
    "ZeroPageIndexedWithY", "ZeroPageIndirect", "ZeroPageIndirectIndexedWithY" }

\* every instruction the decoder knows, in every address mode
IRs == { [Decode(v) EXCEPT !.mode = mo] : v \in 0..255, mo \in AddressModes }

ArmStructs ==
  { [W65C02S_new EXCEPT !.state = "Run", !.ir = ir, !.tcu = t, !.p = p, !.pc = Entry] :
      ir \in IRs, t \in 0..MaxTcu, p \in {0, Decimal} }
  \cup { [W65C02S_new EXCEPT !.state = "Run", !.ir = ir, !.p = p, !.pc = Entry,
                             !.interrupt = TRUE] :
           ir \in {Decode(234), Decode(0)}, p \in {0, IRQB} }
  \cup { [W65C02S_new EXCEPT !.state = "Init", !.c = c, !.interrupt = i] :
           c \in 0..6, i \in BOOLEAN }
  \cup { [W65C02S_new EXCEPT !.state = s, !.p = p, !.pc = Entry, !.interrupt = i] :
           s \in {"Wait", "Halt"}, p \in {0, IRQB}, i \in BOOLEAN }

InitArms ==
  /\ bus = TestSystemBus_new([org |-> Entry, code |-> <<234, 16, 2>>, fill |-> 219], Entry)
  /\ cpu \in ArmStructs
  /\ log = <<>>
  /\ fault = "none"
  /\ overflow_checks \in BOOLEAN
  /\ ticks = 0
  /\ prev = cpu
  /\ dbg = Debugger_new

ArmCycle == StepCycle(MaxArmTicks)

NextArms == ArmCycle
SpecArms == InitArms /\ [][NextArms]_vars

-----------------------------------------------------------------------------
(* The breadboard bus, called directly: read and write as the CPU calls    *)
(* them, peek as System::peek calls it.                                    *)

\* the ends of every region of the address map, and adapter registers
BusAddrs ==
  { 0, 16383, 16384, 24575, 24576, 24577, 24578, 24579, 24589, 24590, 24591,
    24592, 32767, 32768, 65535 }
BusVals == { 0, 255 }

InitBus ==
  /\ bus = SystemBus_new([org |-> 0, code |-> <<>>, fill |-> 234])
  /\ cpu = W65C02S_new
  /\ log = <<>>
  /\ fault = "none"
  /\ overflow_checks \in BOOLEAN
  /\ ticks = 0
  /\ prev = W65C02S_new
  /\ dbg = Debugger_new

\* the outcome r of a direct bus call logged as entry
BusCall(r, entry) ==
  /\ bus' = r.bus
  /\ fault' = r.panic
  /\ log' = <<entry>>
  /\ ticks' = ticks + 1
  /\ UNCHANGED <<cpu, overflow_checks, prev, dbg>>

BusRead ==
  /\ fault = "none"
  /\ ticks < MaxBusOps
  /\ \E addr \in BusAddrs : BusCall(SystemBus_read(bus, addr), <<"read", addr>>)

BusWrite ==
  /\ fault = "none"
  /\ ticks < MaxBusOps
  /\ \E addr \in BusAddrs, val \in BusVals :
       BusCall(SystemBus_write(bus, addr, val), <<"write", addr, val>>)

BusPeek ==
  /\ fault = "none"
  /\ ticks < MaxBusOps
  /\ \E addr \in BusAddrs : BusCall(SystemBus_peek(bus, addr), <<"peek", addr>>)

NextBus == BusRead \/ BusWrite \/ BusPeek
SpecBus == InitBus /\ [][NextBus]_vars

-----------------------------------------------------------------------------
(* Properties of the CPU, from power-on *)

\* IR as interrupt entry loads it: (Instruction::BRK, AddressMode::Implied)
InterruptBRK == Opcode("BRK", "Implied", 0, 0)

\* the interrupt input is asserted and InterruptDisable is clear in CPU c
Accepts(c) == c.interrupt /\ ~HasBit(c.p, IRQB)

\* the step is one call of cycle() that returned
Ticked == ticks' = ticks + 1 /\ fault' = "none"

\* the little-endian word the bus holds at 0xFFFC/0xFFFD
ResetVector == RAM_read(bus.ram, 65532) + 256 * RAM_read(bus.ram, 65533)

\* the entry address the harness was configured with
ConfiguredEntry == bus.ram.img.org

\* C1: reset sequence.  From Init(0) the first five calls of cycle() make no
\* bus access, the sixth reads 0xFFFC into the low byte of PC, the seventh
\* reads 0xFFFD into the high byte and enters Run; after 7 ticks the state is
\* Run, TCU is 0 and PC is the word at 0xFFFC/0xFFFD, which in the CPU-test
\* harness is the configured entry address whatever the image holds there.
C1_ResetSequence ==
  /\ ticks <= 5 => cpu.state = "Init" /\ cpu.c = ticks /\ log = <<>> /\ cpu.pc = 0
  /\ ticks = 6 =>
       /\ cpu.state = "Init" /\ cpu.c = 6
       /\ log = << <<"read", 65532>> >>
       /\ cpu.pc = RAM_read(bus.ram, 65532)
  /\ ticks = 7 =>
       /\ cpu.state = "Run" /\ cpu.tcu = 0
       /\ log = << <<"read", 65533>> >>
       /\ cpu.pc = ResetVector
       /\ cpu.pc = ConfiguredEntry
       /\ fault = "none"

\* the reset sequence has just ended at an entry address the image does not
\* hold at 0xFFFC/0xFFFD
C1_Witness ==
  /\ ticks = 7 /\ cpu.state = "Run" /\ cpu.tcu = 0
  /\ cpu.pc = ConfiguredEntry
  /\ cpu.pc # ImageByte(bus.ram.img, 65532) + 256 * ImageByte(bus.ram.img, 65533)

\* memory[0xFFFC] = 0x34, memory[0xFFFD] = 0x12, memory[0x1234] = 0xEA
C2_Scenario ==
  /\ RAM_read(bus.ram, 65532) = 52
  /\ RAM_read(bus.ram, 65533) = 18
  /\ RAM_read(bus.ram, ScenarioEntry) = 234

C3_InterruptAcceptance ==
  [][ Ticked =>
        /\ (cpu.state = "Run" /\ cpu.tcu = 0 /\ Accepts(cpu)) =>
             /\ log' = <<>>
             /\ cpu'.pc = cpu.pc
             /\ cpu'.ir = InterruptBRK
             /\ cpu'.tcu = 1
             /\ bus' = bus
        /\ (cpu.state = "Run" /\ cpu.tcu = 0 /\ ~Accepts(cpu)) =>
             /\ log' = << <<"read", cpu.pc>> >>
             /\ cpu'.pc = (cpu.pc + 1) % 65536
             /\ cpu'.ir = Decode(RAM_read(bus.ram, cpu.pc))
        /\ ((cpu.tcu # 0 \/ HasBit(cpu.p, IRQB)) /\ cpu'.ir = InterruptBRK) =>
             cpu.ir = InterruptBRK
    ]_vars

\* a tick has accepted an interrupt after the program has run instructions
C3_Witness ==
  /\ prev.state = "Run" /\ prev.tcu = 0 /\ Accepts(prev) /\ prev.pc > ConfiguredEntry
  /\ cpu.ir = InterruptBRK /\ cpu.tcu = 1 /\ cpu.pc = prev.pc /\ log = <<>>
  /\ fault = "none"

\* C4: Wait.  WAI leaves the CPU in Wait.  A cycle() in Wait with the
\* interrupt input clear or InterruptDisable set changes nothing of the CPU or
\* of memory and makes no bus access; with the input asserted and
\* InterruptDisable clear it returns the CPU to Run with IR the implied BRK
\* and TCU = 1.  With InterruptDisable set the CPU never leaves Wait.
C4_WaitState ==
  [][ /\ (Ticked /\ cpu.state = "Run" /\ cpu.ir.ins = "WAI" /\ cpu.tcu = 2) =>
           (cpu'.state = "Wait" /\ cpu'.tcu = 0)
      /\ (Ticked /\ cpu.state = "Wait" /\ ~Accepts(cpu)) =>
           (cpu' = cpu /\ bus' = bus /\ log' = <<>>)
      /\ (Ticked /\ cpu.state = "Wait" /\ Accepts(cpu)) =>
           /\ cpu' = [cpu EXCEPT !.state = "Run", !.ir = InterruptBRK, !.tcu = 1]
           /\ bus' = bus /\ log' = <<>>
      /\ (cpu.state = "Wait" /\ HasBit(cpu.p, IRQB)) =>
           (cpu'.state = "Wait" /\ fault' = "none")
    ]_vars

\* a tick has passed in Wait with the interrupt input asserted and
\* InterruptDisable set
C4_Witness ==
  /\ prev.state = "Wait" /\ prev.interrupt /\ HasBit(prev.p, IRQB)
  /\ cpu.state = "Wait" /\ fault = "none"

\* C5: Halt is absorbing.  Once the CPU is halted, is_halted() stays true and
\* every call of cycle() makes no bus access and leaves the state, IR, TCU,
\* A, X, Y, P, S, PC and memory as they are, whatever the interrupt input.
C5_HaltAbsorbing ==
  [][ is_halted(cpu) =>
        /\ is_halted(cpu')
        /\ [cpu' EXCEPT !.interrupt = cpu.interrupt] = cpu
        /\ bus' = bus
        /\ fault' = fault
        /\ (ticks' # ticks) => log' = <<>>
    ]_vars

\* a tick has passed in Halt with the interrupt input asserted and
\* InterruptDisable clear
C5_Witness ==
  /\ is_halted(prev) /\ Accepts(prev)
  /\ is_halted(cpu) /\ prev.ir.ins = "STP"

\* C7 as the specification states it: every instruction, STP, WAI and the
\* one-cycle NOPs included, ends with TCU = 0.  An instruction has ended when
\* the CPU has left Run for Wait or Halt, and when a one-cycle NOP has been
\* fetched.
C7_EveryInstructionEndsWithTcuZero ==
  fault = "none" =>
    /\ cpu.state \in {"Wait", "Halt"} => cpu.tcu = 0
    /\ (cpu.state = "Run" /\ prev.state = "Run" /\ prev.tcu = 0 /\ ~Accepts(prev)
        /\ cpu.ir = Opcode("NOP", "Implied", 1, 1)) => cpu.tcu = 0

-----------------------------------------------------------------------------
(* Properties of single calls of cycle(), from every CPU struct *)

\* the machine the next call of cycle() starts from
Entering == Machine(cpu, bus, overflow_checks)

\* no arm of cycle() handles (IR, TCU) of the CPU in Run: the call takes the
\* last, catch-all arm
NoHandler ==
  /\ cpu.state = "Run" /\ cpu.tcu # 0
  /\ Fallthrough(InstructionArm(Entering), Entering).panic = "unimplemented"

C8_AtMostOneBusTransaction == Len(log) <= 1

\* a call in Run past the fetch has made one bus transaction, a write
C8_Witness ==
  /\ ticks >= 1 /\ prev.state = "Run" /\ prev.tcu > 0
  /\ Len(log) = 1 /\ log[1][1] = "write"

-----------------------------------------------------------------------------
(* Properties of the breadboard bus *)

\* the selectors of the bus table that match addr
Matching(addr) ==
  { sel \in {ROM_SELECTOR, RAM_SELECTOR, PER_SELECTOR} : Selects(sel, addr) }

\* 0x0000-0x3FFF, 0x6000-0x600F and 0x8000-0xFFFF
Mapped(addr) ==
  \/ 0 <= addr /\ addr <= 16383
  \/ 24576 <= addr /\ addr <= 24591
  \/ 32768 <= addr /\ addr <= 65535

\* the address of the bus call just made
Accessed == log[1][2]

\* C9 (as amended): under the breadboard bus table at most one selector
\* matches an address; exactly one matches in 0x0000-0x3FFF, 0x6000-0x600F
\* and 0x8000-0xFFFF, and none matches in 0x4000-0x5FFF and 0x6010-0x7FFF.
C9_AtMostOneSelector ==
  log # <<>> =>
    /\ Cardinality(Matching(Accessed)) <= 1
    /\ Cardinality(Matching(Accessed)) = 1 <=> Mapped(Accessed)
    /\ Cardinality(Matching(Accessed)) = 0 <=> fault = "unmapped"

\* 0x6010, the address after the adapter's registers, has been accessed and
\* no selector matches it
C9_Witness ==
  /\ log # <<>> /\ Matching(Accessed) = {} /\ Accessed = 24592
  /\ fault = "unmapped"

\* C9 as the specification states it: exactly one selector matches every
\* address
C9_ExactlyOneSelector ==
  log # <<>> => Cardinality(Matching(Accessed)) = 1

\* C10: a read, write or peek of an address no selector matches is fatal and
\* changes no device; it is never answered by a device or with a default byte.
C10_UnmappedAccessFatal ==
  [][ (ticks' = ticks + 1 /\ ~Mapped(log'[1][2])) =>
        (fault' = "unmapped" /\ bus' = bus)
    ]_vars

\* a write to 0x4000, just above RAM, has aborted after RAM has been written
C10_Witness ==
  /\ fault = "unmapped" /\ log = << <<"write", 16384, 255>> >>
  /\ DOMAIN bus.ram.w # {}
-----------------------------------------------------------------------------
(* The breadboard system from power-on, running a ROM image, with the      *)
(* debugger's peek between ticks.                                          *)

\* The ROM is filled with NOP (0xEA), so the reset and interrupt vectors
\* both hold 0xEAEA; the program sits there, at offset 0x6AEA of the ROM.
SysEntry == 106 * 256 + 234

\* LDA #v; STA $60rr
Sta(reg, v) == <<169, v, 141, reg, 96>>
\* LDA $60rr
Lda(reg) == <<173, reg, 96>>

IerVals == { 0, 64, 128, 192 }

SysPrograms ==
  { Sta(ACR, mode) \o Sta(T1C_L, n) \o Sta(T1C_H, 0) \o Sta(IER, e)
      \o Lda(T1C_L) \o Lda(T1C_L) \o Lda(IFR) :
      mode \in {0, 64}, n \in 0..MaxLatch, e \in IerVals }
  \cup { Sta(IER, 192) \o Sta(ACR, 64) \o Sta(T1L_L, 3) \o Sta(T1L_H, 0)
           \o Sta(IER, e) : e \in IerVals }
  \cup { Sta(ACR, 0) \o Sta(T1C_L, 2) \o Sta(T1C_H, 0) \o Sta(IFR, 64) \o Lda(IFR) }
  \cup { Sta(ACR, 128) \o Sta(IFR, 64),
         Sta(DDRA, 255) \o Sta(DDRB, 255) \o Sta(PB, 65) \o Sta(PA, 160)
           \o Sta(PA, 32) \o Sta(PA, 64) \o Lda(PB) }

SysImages == { [org |-> SysEntry, code |-> p, fill |-> 234] : p \in SysPrograms }

\* addresses the debugger peeks: RAM, every adapter register, ROM
PeekAddrs == { 0, 16383, 32768, 65535 } \cup (24576..24591)

\* BreadboardSystem::new(rom_path)
InitSys ==
  /\ \E img \in SysImages : bus = SystemBus_new(img)
  /\ cpu = W65C02S_new
  /\ log = <<>>
  /\ fault = "none"
  /\ overflow_checks \in BOOLEAN
  /\ ticks = 0
  /\ prev = W65C02S_new
  /\ dbg = Debugger_new

\* one call of BreadboardSystem::cycle()
SysCycle ==
  /\ fault = "none"
  /\ ticks < MaxSysTicks
  /\ Returned(BreadboardSystem_cycle(Machine(cpu, bus, overflow_checks)))
  /\ prev' = cpu
  /\ ticks' = ticks + 1
  /\ UNCHANGED <<overflow_checks, dbg>>

\* the call of peek has returned r
Peeked(r, addr) ==
  /\ bus' = r.bus
  /\ fault' = r.panic
  /\ log' = << <<"peek", addr>> >>

\* one call of BreadboardSystem::peek(addr), following a tick
SysPeek ==
  /\ fault = "none"
  /\ ticks > 0
  /\ (IF log = <<>> THEN TRUE ELSE log[1][1] # "peek")
  /\ \E addr \in PeekAddrs : Peeked(SystemBus_peek(bus, addr), addr)
  /\ UNCHANGED <<cpu, overflow_checks, ticks, prev, dbg>>

NextSys == SysCycle \/ SysPeek
SpecSys == InitSys /\ [][NextSys]_vars

-----------------------------------------------------------------------------
(* The adapter and the breadboard tick *)

\* the step is one call of peek
PeekCall == IF log' = <<>> THEN FALSE ELSE log'[1][1] = "peek"

\* the step is one call of BreadboardSystem::cycle()
SysTick == ticks' = ticks + 1

\* the adapter of the breadboard
per == bus.per

\* C11: a call of peek(addr), on any address the debugger may name, leaves
\* the whole bus as it was: every adapter register (IFR keeps the Timer 1
\* flag when T1C_L or T1L_L is peeked), the port input registers, the LCD
\* (address counter, busy counter, DDRAM, dirty flag), the controller, RAM
\* and ROM; the CPU is untouched as well.
C11_PeekSideEffectFree == [][PeekCall => (bus' = bus /\ cpu' = cpu)]_vars

\* T1C_L has been peeked and the Timer 1 flag is still set
C11_Witness ==
  /\ log = << <<"peek", 24576 + T1C_L>> >>
  /\ fault = "none"
  /\ HasBit(per.ifr, T1)

\* some interrupt flag among IFR bits 0..6 is set and enabled by the same bit
\* of IER
EnabledFlag(p) == BitAnd(BitAnd(p.ifr, p.ier), 127) # 0

\* C12: in every reachable state of the adapter, IFR bit 7 is set exactly
\* when some flag among IFR bits 0..6 is set whose bit is also set in IER.
C12_IrqBitTracksEnabledFlags == HasBit(per.ifr, 128) <=> EnabledFlag(per)

\* C13: the interrupt input the adapter drives is high at the end of a tick
\* exactly when some flag among IFR bits 0..6 is set and enabled by the same
\* bit of IER; bit 7 of IFR and of IER never asserts it by itself.
C13_IrqOutputIsEnabledFlag ==
  (ticks >= 1 /\ fault = "none") => (cpu.interrupt <=> EnabledFlag(per))

\* the tick's CPU cycle made exactly the bus access e
Did(e) == log' = <<e>>

\* the tick starts an interrupt sequence
AcceptsNow == cpu.tcu = 0 /\ cpu'.tcu = 1 /\ cpu'.ir = InterruptBRK /\ log' = <<>>

\* C14: the order within a tick.  The CPU cycle comes first, then the
\* adapter's timer step, then the interrupt input is set: at the end of every
\* tick the input equals the adapter's condition (IFR & IER) # 0 on the
\* adapter state at the end of that tick, a counter the CPU loads in a tick is
\* stepped in the same tick, and a tick that starts with the input low never
\* starts an interrupt sequence, even when the adapter raises the input in
\* that tick.
C14_TickOrder ==
  [][ (SysTick /\ fault' = "none") =>
        /\ cpu'.interrupt = (BitAnd(per'.ifr, per'.ier) # 0)
        /\ (\E v \in 0..255 : Did(<<"write", 24576 + T1C_H, v>>)) =>
             IF per'.t1l > 0
             THEN per'.t1c = per'.t1l - 1 /\ ~HasBit(per'.ifr, T1)
             ELSE per'.t1c = per'.t1l /\ HasBit(per'.ifr, T1)
        /\ ~cpu.interrupt => ~AcceptsNow
    ]_vars

\* the tick in which the CPU wrote 0xC0 to IER has raised the input, and the
\* CPU has gone on with the next opcode fetch
C14_Witness ==
  /\ log = << <<"write", 24576 + IER, 192>> >>
  /\ ~prev.interrupt /\ cpu.interrupt /\ ~HasBit(cpu.p, IRQB)
  /\ cpu.tcu = 0 /\ cpu.ir # InterruptBRK
  /\ fault = "none"

\* the tick in which the timer programs write T1C_H: reset takes 7 ticks and
\* each LDA #, STA pair takes 6
LoadTick == 7 + 3 * 6

\* adapter steps since the counter was loaded, the step of the loading tick
\* included, at the end of the tick
SinceLoad == ticks' - LoadTick + 1

\* the program has loaded Timer 1 in free-run mode once: it starts with
\* ACR := 0x40 and no interrupt has restarted it
FreeRunLoaded ==
  /\ bus.rom.img.code[2] = 64 /\ bus.rom.img.code[4] = ACR
  /\ ticks' >= LoadTick
  /\ ~HasBit(cpu'.p, IRQB)

\* C15: Timer 1 in free-run mode with latch N.  After the write to T1C_H,
\* which loads T1C := N and clears the Timer 1 flag, every adapter step that
\* starts with T1C > 0 decrements T1C and leaves the flag alone, and a step
\* that starts with T1C = 0 sets the flag and reloads T1C := T1L; so the flag
\* is set on step N+1 after the load and every N+1 steps from then on, on no
\* other step, and T1C never exceeds T1L.
C15_FreeRunPeriod ==
  [][ (SysTick /\ fault' = "none" /\ FreeRunLoaded) =>
        /\ per'.t1c = per'.t1l - (SinceLoad % (per'.t1l + 1))
        /\ per'.t1c <= per'.t1l
        /\ (SinceLoad % (per'.t1l + 1) = 0) => HasBit(per'.ifr, T1)
        /\ (SinceLoad % (per'.t1l + 1) # 0) =>
             (HasBit(per'.ifr, T1) => HasBit(per.ifr, T1))
        /\ (ticks' = LoadTick /\ per'.t1l > 0) =>
             (HasBit(per.ifr, T1) /\ ~HasBit(per'.ifr, T1))
        /\ (ticks' > LoadTick /\ per.t1c > 0) => per'.t1c = per.t1c - 1
        /\ (ticks' > LoadTick /\ per.t1c = 0) =>
             (per'.t1c = per'.t1l /\ HasBit(per'.ifr, T1))
    ]_vars

\* the second expiry of a timer of latch 3: 8 steps after the load the flag,
\* which a read of T1C_L had cleared, is set again and T1C is reloaded
C15_Witness ==
  /\ per.acr = 64 /\ per.t1l = 3 /\ per.t1c = 3
  /\ ticks = LoadTick + 7
  /\ HasBit(per.ifr, T1) /\ ~HasBit(cpu.p, IRQB)
  /\ log = <<>>
  /\ fault = "none"

-----------------------------------------------------------------------------
(* The CPU-test harness running a short program that sets up the stack     *)
(* pointer and the registers and then executes the instructions of         *)
(* interest.  Every image records what it tests: the instruction at        *)
(* address at, after n two-tick instructions, with S = s and the operands  *)
(* op1 and op2.                                                            *)

StackPointers == { 0, 1, 2, 128, 255 }
AdcVals == { 0, 1, 80, 127, 128, 208, 255 }
BcdVals == { 0, 1, 9, 21, 39, 66, 80, 88, 121, 128, 137, 153 }

\* LDX #s; TXS; [SED | SEC]; BRK, in memory filled with RTI (0x40), so that
\* the vector at 0xFFFE/0xFFFF is 0x4040 and the handler is one RTI
BrkImages ==
  { [org |-> Entry, code |-> <<162, s, 154>> \o pre \o <<0>>, fill |-> 64,
     kind |-> "BRK", n |-> 2 + Len(pre), at |-> Entry + 3 + Len(pre), s |-> s,
     op1 |-> IF pre = <<>> THEN 0 ELSE pre[1], op2 |-> 0] :
      s \in StackPointers, pre \in { <<>>, <<248>>, <<56>> } }

\* LDX #s; TXS; JSR target, in memory filled with RTS (0x60)
JsrImages ==
  { [org |-> Entry - 3, code |-> <<162, s, 154, 32, t % 256, t \div 256>>, fill |-> 96,
     kind |-> "JSR", n |-> 2, at |-> Entry, s |-> s, op1 |-> t, op2 |-> 0] :
      s \in StackPointers, t \in { 4 * 256 + 16, 18 * 256 + 52 } }

\* LDX #s; TXS; LDr #v; PHr; LDr #(255 - v); PLr for r = A, X, Y
PushImages ==
  { [org |-> Entry, code |-> <<162, s, 154, r[1], v, r[2], r[1], 255 - v, r[3]>>,
     fill |-> 219,
     kind |-> "PUSH", n |-> 3, at |-> Entry + 5, s |-> s, op1 |-> v, op2 |-> r[4]] :
      s \in StackPointers, v \in { 0, 90, 128 },
      r \in { <<169, 72, 104, "a">>, <<162, 218, 250, "x">>, <<160, 90, 122, "y">> } }

\* CLC | SEC; LDA #a; ADC #op
AdcImages ==
  { [org |-> Entry, code |-> <<c, 169, a, 105, op>>, fill |-> 219,
     kind |-> "ADC", n |-> 2, at |-> Entry + 3, s |-> 0, op1 |-> a, op2 |-> op] :
      c \in { 24, 56 }, a \in AdcVals, op \in AdcVals }

\* SED; CLC | SEC; LDA #a; ADC #op on valid BCD bytes
DecimalAdcImages ==
  { [org |-> Entry, code |-> <<248, c, 169, a, 105, op>>, fill |-> 219,
     kind |-> "DADC", n |-> 3, at |-> Entry + 4, s |-> 0, op1 |-> a, op2 |-> op] :
      c \in { 24, 56 }, a \in BcdVals, op \in BcdVals }

\* CLC | SEC; LDA #a; SBC #op
SbcImages ==
  { [org |-> Entry, code |-> <<c, 169, a, 233, op>>, fill |-> 219,
     kind |-> "SBC", n |-> 2, at |-> Entry + 3, s |-> 0, op1 |-> a, op2 |-> op] :
      c \in { 24, 56 }, a \in AdcVals, op \in AdcVals }

\* SED; CLC | SEC; LDA #a; SBC #op on valid BCD bytes
DecimalSbcImages ==
  { [org |-> Entry, code |-> <<248, c, 169, a, 233, op>>, fill |-> 219,
     kind |-> "DSBC", n |-> 3, at |-> Entry + 4, s |-> 0, op1 |-> a, op2 |-> op] :
      c \in { 24, 56 }, a \in BcdVals, op \in BcdVals }

ProgImages ==
  BrkImages \cup JsrImages \cup PushImages \cup AdcImages \cup DecimalAdcImages
    \cup SbcImages \cup DecimalSbcImages

\* W65C02S::new(SystemBus::new(ram_path, entry_address))
InitProg ==
  /\ \E img \in ProgImages : bus = TestSystemBus_new(img, img.org)
  /\ cpu = W65C02S_new
  /\ log = <<>>
  /\ fault = "none"
  /\ overflow_checks \in BOOLEAN
  /\ ticks = 0
  /\ prev = W65C02S_new
  /\ dbg = Debugger_new

ProgCycle == StepCycle(MaxProgTicks)

NextProg == ProgCycle
SpecProg == InitProg /\ [][NextProg]_vars

-----------------------------------------------------------------------------
(* Stack and arithmetic instructions, on the runs of SpecProg *)

\* what the image under test records
prog == bus.ram.img

\* the number of ticks before the fetch of the instruction at prog.at: the
\* reset sequence and n two-tick instructions
T0 == 7 + 2 * prog.n

\* S after k pushes, from the S the program has set
Pushed(k) == (prog.s + 256 - k) % 256

\* the tick made exactly the bus access e
Only(e) == log = <<e>>

\* P when the BRK of a BrkImage is fetched: Z and N of LDX #s, and the flag
\* the SED or SEC before BRK has set
BrkP ==
  (IF prog.s = 0 THEN Zero ELSE 0) + (IF prog.s >= 128 THEN Negative ELSE 0)
    + (IF prog.op1 = 248 THEN Decimal ELSE IF prog.op1 = 56 THEN Carry ELSE 0)

\* C16: BRK.  The opcode 0x00 fetched at address a with stack pointer s
\* writes, in this order, the high byte of a+2 to 0x0100|s, the low byte of
\* a+2 to 0x0100|(s-1) and P with Break and User set to 0x0100|(s-2), the
\* stack addresses taken modulo 256; it then sets InterruptDisable, clears
\* Decimal and loads PC from 0xFFFE/0xFFFF; S ends at s-3 modulo 256 and A, X
\* and Y are unchanged.
C16_BrkSequence ==
  prog.kind = "BRK" =>
    /\ ticks = T0 =>
         /\ cpu.pc = prog.at /\ cpu.s = prog.s /\ cpu.p = BrkP /\ cpu.tcu = 0
    /\ ticks = T0 + 1 => (Only(<<"read", prog.at>>) /\ cpu.ir = Decode(0))
    /\ ticks = T0 + 3 => Only(<<"write", 256 + Pushed(0), (prog.at + 2) \div 256>>)
    /\ ticks = T0 + 4 => Only(<<"write", 256 + Pushed(1), (prog.at + 2) % 256>>)
    /\ ticks = T0 + 5 =>
         Only(<<"write", 256 + Pushed(2), BitOr(BitOr(BrkP, BRK), User)>>)
    /\ ticks = T0 + 6 => Only(<<"read", 65534>>)
    /\ ticks = T0 + 7 =>
         /\ Only(<<"read", 65535>>)
         /\ fault = "none"
         /\ cpu.pc = prog.fill + 256 * prog.fill
         /\ HasBit(cpu.p, IRQB) /\ ~HasBit(cpu.p, Decimal)
         /\ cpu.s = Pushed(3)
         /\ cpu.a = prev.a /\ cpu.x = prev.x /\ cpu.y = prev.y
         /\ cpu.a = 0 /\ cpu.x = prog.s /\ cpu.y = 0
         /\ cpu.tcu = 0
         /\ RAM_read(bus.ram, 256 + Pushed(0)) = (prog.at + 2) \div 256
         /\ RAM_read(bus.ram, 256 + Pushed(1)) = (prog.at + 2) % 256
         /\ RAM_read(bus.ram, 256 + Pushed(2)) = BitOr(BitOr(BrkP, BRK), User)

\* BRK with S = 0x01 and Decimal set has completed: the pushes have wrapped
\* from 0x0100 to 0x01FF
C16_Witness ==
  /\ prog.kind = "BRK" /\ prog.s = 1 /\ prog.op1 = 248
  /\ ticks = T0 + 7
  /\ prev.ir = Decode(0) /\ prev.tcu = 6 /\ cpu.tcu = 0
  /\ cpu.s = 254 /\ 256 + 255 \in DOMAIN bus.ram.w
  /\ fault = "none"

\* C17: BRK then RTI.  After a BRK at address a and an RTI executed with the
\* stack as BRK left it, PC = a+2, S has its value from before the BRK and P
\* is the status byte BRK pushed.
C17_BrkRtiRoundTrip ==
  (prog.kind = "BRK" /\ ticks = T0 + 13) =>
    /\ fault = "none"
    /\ prev.ir.ins = "RTI" /\ cpu.tcu = 0
    /\ cpu.pc = prog.at + 2
    /\ cpu.s = prog.s
    /\ cpu.p = BitOr(BitOr(BrkP, BRK), User)
    /\ cpu.p = RAM_read(bus.ram, 256 + Pushed(2))

\* the RTI of the handler has returned to a+2, with S = 0x00 again after the
\* pops have wrapped
C17_Witness ==
  /\ prog.kind = "BRK" /\ prog.s = 0 /\ ticks = T0 + 13
  /\ prev.ir.ins = "RTI" /\ prev.tcu = 5 /\ cpu.tcu = 0
  /\ cpu.pc = prog.at + 2 /\ cpu.s = 0
  /\ fault = "none"

\* C18: JSR then RTS.  JSR at address a with S = s pushes the high then the
\* low byte of a+2, leaves S = s-2 and PC = the operand; the matching RTS
\* restores S = s and sets PC = a+3.  JSR $0410 at 0x0400 with S = 0xFF leaves
\* memory[0x01FF] = 0x04, memory[0x01FE] = 0x02, S = 0xFD, PC = 0x0410, and
\* after RTS S = 0xFF, PC = 0x0403.
C18_JsrRtsRoundTrip ==
  prog.kind = "JSR" =>
    /\ ticks = T0 => (cpu.pc = prog.at /\ cpu.s = prog.s /\ cpu.tcu = 0)
    /\ ticks = T0 + 4 => Only(<<"write", 256 + Pushed(0), (prog.at + 2) \div 256>>)
    /\ ticks = T0 + 5 => Only(<<"write", 256 + Pushed(1), (prog.at + 2) % 256>>)
    /\ ticks = T0 + 6 =>
         /\ fault = "none" /\ cpu.tcu = 0 /\ prev.ir.ins = "JSR"
         /\ cpu.s = Pushed(2) /\ cpu.pc = prog.op1
         /\ (prog.s = 255 /\ prog.op1 = 1040) =>
              /\ prog.at = 1024
              /\ RAM_read(bus.ram, 511) = 4 /\ RAM_read(bus.ram, 510) = 2
              /\ cpu.s = 253 /\ cpu.pc = 1040
    /\ ticks = T0 + 12 =>
         /\ fault = "none" /\ cpu.tcu = 0 /\ prev.ir.ins = "RTS"
         /\ cpu.s = prog.s /\ cpu.pc = prog.at + 3
         /\ (prog.s = 255 /\ prog.op1 = 1040) => (cpu.s = 255 /\ cpu.pc = 1027)

\* the RTS matching JSR $0410 at 0x0400 with S = 0xFF has returned
C18_Witness ==
  /\ prog.kind = "JSR" /\ prog.s = 255 /\ prog.op1 = 1040 /\ ticks = T0 + 12
  /\ prev.ir.ins = "RTS" /\ prev.tcu = 5
  /\ cpu.pc = 1027 /\ cpu.s = 255
  /\ fault = "none"

\* C19: PHR then PLR, for R in A, X, Y, with no stack write in between,
\* restore R and S for every starting S, 0x00 included (the push wraps S to
\* 0xFF); every stack access stays inside 0x0100..0x01FF.
C19_PushPullRoundTrip ==
  prog.kind = "PUSH" =>
    /\ ticks = T0 =>
         (cpu.pc = prog.at /\ cpu.s = prog.s /\ cpu[prog.op2] = prog.op1 /\ cpu.tcu = 0)
    /\ ticks = T0 + 2 => Only(<<"write", 256 + prog.s, prog.op1>>)
    /\ ticks = T0 + 3 => (cpu.s = Pushed(1) /\ cpu.tcu = 0)
    /\ ticks = T0 + 5 => (cpu[prog.op2] = 255 - prog.op1 /\ cpu.s = Pushed(1))
    /\ ticks = T0 + 7 => Only(<<"read", 256 + prog.s>>)
    /\ ticks = T0 + 9 =>
         /\ fault = "none" /\ cpu.tcu = 0
         /\ cpu[prog.op2] = prog.op1
         /\ cpu.s = prog.s
    /\ (ticks > T0 /\ ticks <= T0 + 9 /\ log # <<>> /\ Accessed < prog.org) =>
         (Accessed >= 256 /\ Accessed <= 511)

\* PLX has restored X = 0x5A and S = 0x00 after the push wrapped S to 0xFF
C19_Witness ==
  /\ prog.kind = "PUSH" /\ prog.s = 0 /\ prog.op2 = "x" /\ prog.op1 = 90
  /\ ticks = T0 + 9
  /\ prev.ir.ins = "PLX" /\ cpu.tcu = 0
  /\ cpu.x = 90 /\ cpu.s = 0
  /\ fault = "none"

\* the 16-bit sum of ADC #op2 with A = op1 and the carry the image sets
AdcSum == prog.op1 + prog.op2 + (IF prog.code[1] = 56 THEN 1 ELSE 0)

\* C20: binary ADC.  With sum = A + operand + carry_in taken in 16 bits:
\* A' = sum mod 256, Carry = bit 8 of sum, Zero = (A' = 0), Negative = bit 7
\* of A', Overflow = (((sum ^ A) & (sum ^ operand)) & 0x80 # 0).  A = 0x50,
\* ADC #$50 with carry clear gives A = 0xA0, C = 0, V = 1, N = 1, Z = 0.
C20_BinaryAdc ==
  prog.kind = "ADC" =>
    /\ ticks = T0 =>
         /\ cpu.pc = prog.at /\ cpu.a = prog.op1 /\ cpu.tcu = 0
         /\ ~HasBit(cpu.p, Decimal)
         /\ HasBit(cpu.p, Carry) = (prog.code[1] = 56)
    /\ ticks = T0 + 2 =>
         /\ fault = "none" /\ cpu.tcu = 0 /\ prev.ir.ins = "ADC"
         /\ cpu.a = AdcSum % 256
         /\ HasBit(cpu.p, Carry) = ((AdcSum \div 256) % 2 = 1)
         /\ HasBit(cpu.p, Zero) = (cpu.a = 0)
         /\ HasBit(cpu.p, Negative) = ((cpu.a \div 128) % 2 = 1)
         /\ HasBit(cpu.p, Overflow) =
              (BitAnd(BitAnd(BitXor(AdcSum, prog.op1), BitXor(AdcSum, prog.op2)), 128) # 0)
         /\ (prog.op1 = 80 /\ prog.op2 = 80 /\ prog.code[1] = 24) =>
              /\ cpu.a = 160
              /\ ~HasBit(cpu.p, Carry) /\ HasBit(cpu.p, Overflow)
              /\ HasBit(cpu.p, Negative) /\ ~HasBit(cpu.p, Zero)

\* CLC; LDA #$50; ADC #$50 has completed with A = 0xA0
C20_Witness ==
  /\ prog.kind = "ADC" /\ prog.op1 = 80 /\ prog.op2 = 80 /\ prog.code[1] = 24
  /\ ticks = T0 + 2
  /\ prev.ir.ins = "ADC" /\ cpu.a = 160
  /\ fault = "none"

-----------------------------------------------------------------------------
(* Decimal arithmetic, subtraction, branches and NOPs, on SpecProg *)

\* the decimal value of a BCD byte, and the BCD byte of a value below 100
DecimalValue(b) == (b \div 16) * 10 + (b % 16)
BcdByte(v) == (v \div 10) * 16 + (v % 10)

\* the carry the image sets before the instruction under test: SEC or CLC
CarryIn == IF prog.code[prog.n - 1] = 56 THEN 1 ELSE 0

\* the decimal sum of ADC #op2 with A = op1
DecimalTotal == DecimalValue(prog.op1) + DecimalValue(prog.op2) + CarryIn

\* C21: decimal ADC.  With Decimal set, for valid BCD A and operand and
\* carry-in c, A' is the BCD byte of (A + operand + c) mod 100, Carry says
\* whether the decimal sum reached 100, Zero and Negative are those of A', and
\* ADC #imm takes 3 ticks, one more than in binary mode.  0x15 + 0x27 gives
\* 0x42 with Carry = 0.
C21_DecimalAdc ==
  prog.kind = "DADC" =>
    /\ ticks = T0 =>
         /\ cpu.pc = prog.at /\ cpu.a = prog.op1 /\ cpu.tcu = 0
         /\ HasBit(cpu.p, Decimal)
         /\ HasBit(cpu.p, Carry) = (CarryIn = 1)
    /\ ticks = T0 + 2 => (fault = "none" /\ cpu.tcu # 0)
    /\ ticks = T0 + 3 =>
         /\ fault = "none" /\ cpu.tcu = 0 /\ prev.ir.ins = "ADC"
         /\ cpu.pc = prog.at + 2
         /\ cpu.a = BcdByte(DecimalTotal % 100)
         /\ HasBit(cpu.p, Carry) = (DecimalTotal >= 100)
         /\ HasBit(cpu.p, Zero) = (cpu.a = 0)
         /\ HasBit(cpu.p, Negative) = (cpu.a >= 128)
         /\ (prog.op1 = 21 /\ prog.op2 = 39 /\ CarryIn = 0) =>
              (cpu.a = 66 /\ ~HasBit(cpu.p, Carry) /\ ~HasBit(cpu.p, Zero))

\* SED; CLC; LDA #$15; ADC #$27 has completed in its third tick with A = 0x42
C21_Witness ==
  /\ prog.kind = "DADC" /\ prog.op1 = 21 /\ prog.op2 = 39 /\ CarryIn = 0
  /\ ticks = T0 + 3
  /\ prev.ir.ins = "ADC" /\ prev.tcu = 2 /\ cpu.tcu = 0
  /\ cpu.a = 66
  /\ fault = "none"

\* the ADC #op that starts where the SBC under test has been fetched: the
\* same CPU with IR = ADC # and the operand byte op at PC
AdcTwin(op) ==
  cycle(Machine([prev EXCEPT !.ir = Decode(105)],
                Bus_write(bus, prev.pc, op).bus, overflow_checks))

\* the tick has left A, P, PC and TCU as the call t has
SameResult(t) ==
  /\ t.panic = "none"
  /\ cpu.a = t.cpu.a /\ cpu.p = t.cpu.p /\ cpu.pc = t.cpu.pc /\ cpu.tcu = t.cpu.tcu

\* C22: SBC is ADC of the complemented operand.  With Decimal clear, SBC #m
\* leaves the A and the Carry, Zero, Negative and Overflow that binary ADC
\* #(m XOR 0xFF) leaves from the same state; with Decimal set and valid BCD
\* inputs, SBC #m leaves what decimal ADC #(0x99 - m) leaves, and takes one
\* extra tick.
C22_SbcIsAdcOfComplement ==
  /\ (prog.kind = "SBC" /\ ticks = T0 + 2) =>
       /\ fault = "none" /\ prev.ir = Decode(233) /\ prev.tcu = 1
       /\ ~HasBit(prev.p, Decimal)
       /\ cpu.tcu = 0
       /\ SameResult(AdcTwin(BitXor(prog.op2, 255)))
  /\ (prog.kind = "DSBC" /\ ticks = T0 + 2) =>
       /\ fault = "none" /\ prev.ir = Decode(233) /\ prev.tcu = 1
       /\ HasBit(prev.p, Decimal)
       /\ cpu.tcu = 2
       /\ SameResult(AdcTwin(153 - prog.op2))
  /\ (prog.kind = "DSBC" /\ ticks = T0 + 3) =>
       /\ fault = "none" /\ cpu.tcu = 0
       /\ cpu.a = prev.a /\ cpu.p = prev.p /\ cpu.pc = prev.pc

\* SED; SEC; LDA #$42; SBC #$15 has completed in its third tick with A = 0x27
C22_Witness ==
  /\ prog.kind = "DSBC" /\ prog.op1 = 66 /\ prog.op2 = 21 /\ CarryIn = 1
  /\ ticks = T0 + 3
  /\ prev.ir.ins = "SBC" /\ prev.tcu = 2 /\ cpu.tcu = 0
  /\ cpu.a = 39 /\ HasBit(cpu.p, Carry)
  /\ fault = "none"

\* the offset byte read as a signed 8-bit value
Signed8(b) == IF b < 128 THEN b ELSE b - 256

\* the registers and flags of CPU c
Registers(c) == <<c.a, c.x, c.y, c.s, c.p>>

\* C23: branches.  BCC, BCS, BEQ, BNE, BMI, BPL, BVC, BVS and BRA at address
\* a always fetch the offset byte; a taken branch ends with PC = a + 2 +
\* offset, the offset read as a signed 8-bit value, one tick later than an
\* untaken one, which ends with PC = a + 2; no flag, register or memory byte
\* changes.
C23_Branches ==
  [][ (prog.kind = "BRANCH" /\ ticks >= T0 /\ ticks' = ticks + 1) =>
        /\ ticks = T0 => (cpu.pc = prog.at /\ cpu.tcu = 0)
        /\ ticks = T0 + 1 =>
             /\ log' = << <<"read", prog.at + 1>> >>
             /\ cpu'.temp8 = prog.op1
             /\ (prog.op2 = 0) => (cpu'.tcu = 0 /\ cpu'.pc = prog.at + 2)
             /\ (prog.op2 = 1) => (cpu'.tcu # 0 /\ cpu'.pc = prog.at + 2)
        /\ (ticks = T0 + 2 /\ prog.op2 = 1) =>
             /\ log' = <<>>
             /\ cpu'.tcu = 0
             /\ cpu'.pc = prog.at + 2 + Signed8(prog.op1)
        /\ ticks <= T0 + 1 + prog.op2 =>
             /\ fault' = "none"
             /\ Registers(cpu') = Registers(cpu)
             /\ bus' = bus
    ]_vars

\* BMI with offset 0x80 has been taken: PC = a + 2 - 128, three ticks after
\* the opcode fetch began
C23_Witness ==
  /\ prog.kind = "BRANCH" /\ prog.code[Len(prog.code) - 1] = 48
  /\ prog.op1 = 128 /\ prog.op2 = 1
  /\ ticks = T0 + 3 /\ cpu.tcu = 0
  /\ cpu.pc = prog.at - 126
  /\ HasBit(cpu.p, Negative)
  /\ fault = "none"

\* the opcode under test of an image of Images, its address and the number
\* of ticks before its fetch: the one-byte prefix, if any, takes two ticks
TestedOpcode == prog.code[Len(prog.code) - 2]
TestedAt == prog.org + Len(prog.code) - 3
TestedFrom == 7 + 2 * (Len(prog.code) - 3)

\* C24: for every opcode that decodes to NOP(bytes, cycles), the
\* instruction fetched at a ends with PC = a + bytes, takes exactly cycles
\* ticks from its opcode fetch until TCU is 0 again, and changes no register,
\* flag or memory byte.
C24_NopBytesAndCycles ==
  (Len(prog.code) >= 3 /\ Decode(TestedOpcode).ins = "NOP") =>
    /\ (ticks > TestedFrom /\ ticks < TestedFrom + Decode(TestedOpcode).c) =>
         cpu.tcu # 0
    /\ ticks = TestedFrom + Decode(TestedOpcode).c =>
         /\ fault = "none"
         /\ cpu.tcu = 0
         /\ cpu.pc = TestedAt + Decode(TestedOpcode).n
    /\ (ticks > TestedFrom /\ ticks <= TestedFrom + Decode(TestedOpcode).c) =>
         /\ Registers(cpu) = Registers(prev)
         /\ DOMAIN bus.ram.w = {65532, 65533}

-----------------------------------------------------------------------------
(* The harness running one branch instruction, after instructions that     *)
(* set or clear the flag it tests, with every offset byte.                 *)

\* <<opcode, instructions that make the branch taken, ... not taken>>
BranchCases ==
  { <<144, <<24>>, <<56>> >>,                       \* BCC: CLC, SEC
    <<176, <<56>>, <<24>> >>,                       \* BCS: SEC, CLC
    <<240, <<169, 0>>, <<169, 1>> >>,               \* BEQ: LDA #0, LDA #1
    <<208, <<169, 1>>, <<169, 0>> >>,               \* BNE
    <<48, <<169, 128>>, <<169, 1>> >>,              \* BMI: LDA #$80, LDA #1
    <<16, <<169, 1>>, <<169, 128>> >>,              \* BPL
    <<112, <<169, 80, 105, 80>>, <<184>> >>,        \* BVS: LDA #$50; ADC #$50, CLV
    <<80, <<184>>, <<169, 80, 105, 80>> >>,         \* BVC
    <<128, <<24>>, <<56>> >> }                      \* BRA: taken either way

\* the image records the offset byte in op1 and in op2 whether the branch
\* is to be taken
BranchImages ==
  { [org |-> Entry, code |-> b[IF t = 1 THEN 2 ELSE 3] \o <<b[1], off>>, fill |-> 219,
     kind |-> "BRANCH", n |-> IF Len(b[IF t = 1 THEN 2 ELSE 3]) = 4 THEN 2 ELSE 1,
     at |-> Entry + Len(b[IF t = 1 THEN 2 ELSE 3]), s |-> 0,
     op1 |-> off, op2 |-> IF b[1] = 128 THEN 1 ELSE t] :
      b \in BranchCases, t \in {0, 1}, off \in 0..255 }

InitBranch ==
  /\ \E img \in BranchImages : bus = TestSystemBus_new(img, img.org)
  /\ cpu = W65C02S_new
  /\ log = <<>>
  /\ fault = "none"
  /\ overflow_checks \in BOOLEAN
  /\ ticks = 0
  /\ prev = W65C02S_new
  /\ dbg = Debugger_new

BranchCycle == StepCycle(MaxBranchTicks)

NextBranch == BranchCycle
SpecBranch == InitBranch /\ [][NextBranch]_vars

-----------------------------------------------------------------------------
(* The character display of components/display.rs: HD44780U behind its     *)
(* port adapter HD44780UAdapter.                                           *)

Idle == [tag |-> "Idle", c |-> 0]
Busy(c) == [tag |-> "Busy", c |-> c]

\* HD44780U::new(): two lines of 40 spaces, Busy(150)
HD44780U_new ==
  [state |-> Busy(150), addr |-> 0,
   line1 |-> [i \in 1..40 |-> 32], line2 |-> [i \in 1..40 |-> 32],
   updated |-> FALSE]

\* self.line1[offset] or self.line2[offset] for the address counter;
\* indexing past the 40 bytes of a line panics
ddram_line(dsp) == IF BitAnd(dsp.addr, 64) = 0 THEN "line1" ELSE "line2"
ddram_offset(dsp) == BitAnd(dsp.addr, 63)

\* HD44780U::peek and HD44780U::read
HD44780U_read(dsp, rs) ==
  IF rs = "Instruction"
  THEN Ret(dsp, IF dsp.state.tag = "Busy" THEN BitOr(dsp.addr, 128) ELSE dsp.addr, "none")
  ELSE IF ddram_offset(dsp) >= 40 THEN Ret(dsp, 0, "index out of bounds")
  ELSE Ret(dsp, dsp[ddram_line(dsp)][ddram_offset(dsp) + 1], "none")

\* the address counter after a data write
next_addr(a) ==
  IF BitAnd(a, 64) = 0 THEN (IF a > 40 THEN 64 ELSE a)
  ELSE (IF a > 64 + 40 THEN 0 ELSE a)

\* the instruction val, decoded by its highest set bit
instruction(dsp, val) ==
  IF BitAnd(val, 128) = 128 THEN [dsp EXCEPT !.addr = BitAnd(val, 127) % 80]
  ELSE IF val >= 2 THEN dsp
  ELSE IF val = 1
  THEN [dsp EXCEPT !.addr = 0, !.line1 = [i \in 1..40 |-> 32],
                   !.line2 = [i \in 1..40 |-> 32]]
  ELSE dsp

\* HD44780U::write
HD44780U_write(dsp, rs, val) ==
  IF rs = "Instruction"
  THEN Ret([instruction(dsp, val) EXCEPT !.state = Busy(37)], 0, "none")
  ELSE IF ddram_offset(dsp) >= 40 THEN Ret(dsp, 0, "index out of bounds")
  ELSE Ret([dsp EXCEPT ![ddram_line(dsp)][ddram_offset(dsp) + 1] = val,
                       !.addr = next_addr(dsp.addr + 1),
                       !.state = Busy(37), !.updated = TRUE], 0, "none")

\* impl clock::Attachment for HD44780U
HD44780U_cycle(dsp) ==
  IF dsp.state.tag = "Idle" THEN dsp
  ELSE IF dsp.state.c = 0 THEN [dsp EXCEPT !.state = Idle]
  ELSE [dsp EXCEPT !.state = Busy(dsp.state.c - 1)]

\* HD44780UAdapter::new() with the display attached
HD44780UAdapter_new == [a_cache |-> 0, b_cache |-> 0, dsp |-> HD44780U_new]

\* get_control: (rs, rw, e) from bits 0x20, 0x40, 0x80
get_control(a) ==
  [rs |-> IF BitAnd(a, 32) = 32 THEN "Data" ELSE "Instruction",
   rw |-> BitAnd(a, 64) = 64, e |-> BitAnd(a, 128) = 128]

\* the display has returned r from a call the adapter made
dsp_called(ada, r) == Ret([ada EXCEPT !.dsp = r.dev], r.val, r.panic)

\* HD44780UAdapter::read and ::peek
HD44780UAdapter_read(ada, p) ==
  IF p = "A" THEN Ret(ada, 0, "none")
  ELSE dsp_called(ada, HD44780U_read(ada.dsp, get_control(ada.a_cache).rs))

\* the port A write has called the display, or not, with outcome r
a_written(r, val) == Ret([r.dev EXCEPT !.a_cache = val], 0, r.panic)

\* match (old enable, new enable) { (true, false) => ... }
falling_edge(ada, p, val) ==
  p = "A" /\ get_control(ada.a_cache).e /\ ~get_control(val).e

\* HD44780UAdapter::write
HD44780UAdapter_write(ada, p, val) ==
  IF p = "B" THEN Ret([ada EXCEPT !.b_cache = val], 0, "none")
  ELSE IF falling_edge(ada, p, val)
  THEN a_written(dsp_called(ada, HD44780U_write(ada.dsp, get_control(val).rs, ada.b_cache)), val)
  ELSE a_written(Ret(ada, 0, "none"), val)

\* the port bytes the host drives: enable high, and enable low with the
\* other control bits; instructions and a character
PortAVals == { 0, 32, 64, 128 }
PortBVals == { 1, 2, 65, 133, 167 }

\* the display and its adapter, created and attached
InitLcd ==
  /\ bus = [kind |-> "lcd", ada |-> HD44780UAdapter_new]
  /\ cpu = W65C02S_new
  /\ log = <<>>
  /\ fault = "none"
  /\ overflow_checks = FALSE
  /\ ticks = 0
  /\ prev = W65C02S_new
  /\ dbg = Debugger_new

\* the adapter call has returned r and is logged as entry
LcdCalled(r, entry) ==
  /\ bus' = [bus EXCEPT !.ada = r.dev]
  /\ fault' = r.panic
  /\ log' = <<entry>>

\* cycle() calls since the last port access, and that access
Cycles == IF log = <<>> THEN 0 ELSE IF log[1][1] = "cycle" THEN log[1][2] ELSE 0
LastAccess ==
  IF log = <<>> THEN <<"new">> ELSE IF log[1][1] = "cycle" THEN log[2] ELSE log[1]

\* the host accesses the ports back to back, or after it has waited for
\* the display to become idle
HostReady == Cycles = 0 \/ bus.ada.dsp.state = Idle

\* one call of write(port, val) on the adapter
LcdWrite ==
  /\ fault = "none"
  /\ ticks < MaxLcdWrites
  /\ HostReady
  /\ \E p \in {"A", "B"} :
       \E val \in (IF p = "A" THEN PortAVals ELSE PortBVals) :
         LcdCalled(HD44780UAdapter_write(bus.ada, p, val), <<"write", p, val, falling_edge(bus.ada, p, val)>>)
  /\ ticks' = ticks + 1
  /\ UNCHANGED <<cpu, overflow_checks, prev, dbg>>

\* one call of read(Port::B) on the adapter
LcdRead ==
  /\ fault = "none"
  /\ ticks < MaxLcdWrites
  /\ Cycles = 0
  /\ LcdCalled(HD44780UAdapter_read(bus.ada, "B"), <<"read", "B">>)
  /\ ticks' = ticks + 1
  /\ UNCHANGED <<cpu, overflow_checks, prev, dbg>>

\* one call of cycle() on the display
LcdCycle ==
  /\ fault = "none"
  /\ Cycles < MaxLcdCycles
  /\ bus' = [bus EXCEPT !.ada.dsp = HD44780U_cycle(@)]
  /\ log' = << <<"cycle", Cycles + 1>>, LastAccess >>
  /\ UNCHANGED <<cpu, fault, overflow_checks, ticks, prev, dbg>>

NextLcd == LcdWrite \/ LcdRead \/ LcdCycle
SpecLcd == InitLcd /\ [][NextLcd]_vars

-----------------------------------------------------------------------------
(* The display claims, under SpecLcd.                                      *)

lcd == bus.ada.dsp

\* this step is a call of write(port, val) on the adapter
PortWrite == ticks' = ticks + 1 /\ log'[1][1] = "write"
WrittenPort == log'[1][2]
WrittenVal == log'[1][3]

\* C25: among port writes the display changes only in a port A write that
\* takes enable from high to low while RW is low, and what is committed is
\* the byte last written to port B; every other port write leaves the
\* display as it was.
C25_CommitOnlyOnFallingEnableRwLow ==
  [][PortWrite =>
       IF /\ WrittenPort = "A"
          /\ get_control(bus.ada.a_cache).e
          /\ ~get_control(WrittenVal).e
          /\ ~get_control(WrittenVal).rw
       THEN lcd' = HD44780U_write(lcd, get_control(WrittenVal).rs, bus.ada.b_cache).dev
       ELSE lcd' = lcd]_vars

\* this step commits the instruction bus.ada.b_cache
InstructionWrite ==
  /\ PortWrite
  /\ log'[1][4]
  /\ get_control(WrittenVal).rs = "Instruction"

Blank == [i \in 1..40 |-> 32]

\* C26: an instruction is decoded by its highest set bit: bit 7 sets the
\* address counter to (value & 0x7F) mod 80, bit 1 sets it to 0 and leaves
\* DDRAM alone, bit 0 sets it to 0 and fills both lines with 0x20, and the
\* instructions with highest bit 6..2 leave address counter and DDRAM alone.
C26_InstructionDecode ==
  [][InstructionWrite =>
       LET v == bus.ada.b_cache IN
         IF v >= 128
         THEN lcd'.addr = BitAnd(v, 127) % 80 /\ lcd'.line1 = lcd.line1 /\ lcd'.line2 = lcd.line2
         ELSE IF v >= 4
         THEN lcd'.addr = lcd.addr /\ lcd'.line1 = lcd.line1 /\ lcd'.line2 = lcd.line2
         ELSE IF v >= 2
         THEN lcd'.addr = 0 /\ lcd'.line1 = lcd.line1 /\ lcd'.line2 = lcd.line2
         ELSE IF v = 1
         THEN lcd'.addr = 0 /\ lcd'.line1 = Blank /\ lcd'.line2 = Blank
         ELSE TRUE]_vars

\* the last port access committed a write and Cycles calls of cycle() followed
AfterCommit == LastAccess[1] = "write" /\ LastAccess[4]

\* C27: after a committed write and no further write the display is busy
\* for exactly 37 calls of cycle(): the instruction register reads the
\* address counter with bit 7 set before the 37th call has returned, and
\* from then on the display is Idle and bit 7 reads clear.
C27_BusyFor37Cycles ==
  AfterCommit =>
    IF Cycles < 37
    THEN lcd.state.tag = "Busy" /\ HD44780U_read(lcd, "Instruction").val = lcd.addr + 128
    ELSE lcd.state = Idle /\ HD44780U_read(lcd, "Instruction").val = lcd.addr

\* C31: after any instruction and data writes from power-on the address
\* counter designates one of the 80 DDRAM cells: bit 6 selects the line and
\* the low six bits are below 40, so that every data access finds its cell
\* and no access aborts.
C31_AddressCounterInDdram ==
  /\ ddram_offset(lcd) < 40
  /\ lcd.addr < 128
  /\ fault = "none"

-----------------------------------------------------------------------------
(* The game controller of component/snes_controller.rs, polled by a host   *)
(* that pulses its latch and clock lines.                                  *)

\* enum Button: A = 0 .. Right = 7
Buttons == 0 .. 7

\* Variant of on_press: the press reaches the latch register only with the
\* next latch pulse
SNESController_on_press_state_only(con, btn) ==
  [con EXCEPT !.state = ClearBit(@, Pow2(btn))]

\* SNESController::on_press and ::on_release
SNESController_on_press(con, btn) ==
  [con EXCEPT !.state = ClearBit(@, Pow2(btn)), !.latch = ClearBit(@, Pow2(btn))]
SNESController_on_release(con, btn) == [con EXCEPT !.state = SetBit(@, Pow2(btn))]

\* the buttons of the set have been pressed, or released, one after another
RECURSIVE PressAll(_, _)
PressAll(con, bs) ==
  IF bs = {} THEN con
  ELSE LET b == CHOOSE x \in bs : TRUE
       IN  PressAll(SNESController_on_press(con, b), bs \ {b})
RECURSIVE ReleaseAll(_, _)
ReleaseAll(con, bs) ==
  IF bs = {} THEN con
  ELSE LET b == CHOOSE x \in bs : TRUE
       IN  ReleaseAll(SNESController_on_release(con, b), bs \ {b})

\* what the player did before the host starts to poll: the buttons pressed,
\* and whether they are still held
PressedSets == { {b} : b \in Buttons } \cup { {}, Buttons, {0, 2, 4, 6}, {1, 3} }
LateButtons == { 0, 7 }

\* bus.held and bus.recorded are the buttons held now and the buttons pressed
\* since the latch register was last reloaded; bus.fresh are the buttons
\* pressed since the last latch pulse and bus.tapped those of them that were
\* released again and not pressed since; bus.pin_latch and bus.pin_clk are
\* the levels of the last write; prev is the record of the latching write,
\* prev.earlier the buttons tapped before the latch pulse before it
InitCon ==
  /\ \E P \in PressedSets : \E stillHeld \in BOOLEAN :
       bus = [kind |-> "con",
              con |-> IF stillHeld THEN PressAll(SNESController_new, P)
                      ELSE ReleaseAll(PressAll(SNESController_new, P), P),
              held |-> IF stillHeld THEN P ELSE {},
              recorded |-> P,
              fresh |-> P,
              tapped |-> IF stillHeld THEN {} ELSE P,
              pin_latch |-> FALSE, pin_clk |-> FALSE]
  /\ cpu = W65C02S_new
  /\ log = <<>>
  /\ fault = "none"
  /\ overflow_checks = FALSE
  /\ ticks = 0
  /\ prev = [latched |-> FALSE, recorded |-> {}, latch |-> 255,
             tapped |-> {}, earlier |-> {}]
  /\ dbg = Debugger_new

\* the player presses a button
ConPress ==
  /\ \E b \in LateButtons :
       /\ b \notin bus.held
       /\ bus' = [bus EXCEPT !.con = SNESController_on_press(@, b),
                             !.held = @ \cup {b}, !.recorded = @ \cup {b},
                             !.fresh = @ \cup {b}, !.tapped = @ \ {b}]
       /\ log' = << <<"on_press", b>> >>
  /\ UNCHANGED <<cpu, fault, overflow_checks, ticks, prev, dbg>>

\* the player releases a button
ConRelease ==
  /\ \E b \in LateButtons :
       /\ b \in bus.held
       /\ bus' = [bus EXCEPT !.con = SNESController_on_release(@, b), !.held = @ \ {b},
                             !.tapped = IF b \in bus.fresh THEN @ \cup {b} ELSE @]
       /\ log' = << <<"on_release", b>> >>
  /\ UNCHANGED <<cpu, fault, overflow_checks, ticks, prev, dbg>>

\* the host pulses one line at a time: it raises a line when both are low
\* and lowers it with the next write
HostPulse(latch, clk) ==
  IF bus.pin_latch \/ bus.pin_clk THEN ~latch /\ ~clk
  ELSE (latch /\ ~clk) \/ (clk /\ ~latch /\ prev.latched /\ ticks < MaxClocks)

\* one call of write(latch, clk)
ConWrite ==
  /\ \E latch \in BOOLEAN, clk \in BOOLEAN :
       /\ HostPulse(latch, clk)
       /\ bus' = [bus EXCEPT !.con = SNESController_write(@, latch, clk),
                             !.recorded = IF latch THEN bus.held ELSE @,
                             !.fresh = IF latch THEN {} ELSE @,
                             !.tapped = IF latch THEN {} ELSE @,
                             !.pin_latch = latch, !.pin_clk = clk]
       /\ prev' = IF latch
                  THEN [latched |-> TRUE, recorded |-> bus.recorded, latch |-> bus.con.latch,
                        tapped |-> bus.tapped, earlier |-> prev.tapped]
                  ELSE prev
       /\ ticks' = IF latch THEN 0 ELSE IF clk THEN ticks + 1 ELSE ticks
       /\ log' = << <<"write", latch, clk>> >>
  /\ UNCHANGED <<cpu, fault, overflow_checks, dbg>>

\* one call of read()
ConRead ==
  /\ IF log = <<>> THEN TRUE ELSE log[1][1] # "read"
  /\ log' = << <<"read", SNESController_read(bus.con)>> >>
  /\ UNCHANGED <<cpu, bus, fault, overflow_checks, ticks, prev, dbg>>

NextCon == ConPress \/ ConRelease \/ ConWrite \/ ConRead
SpecCon == InitCon /\ [][NextCon]_vars

\* the latch pulse and ticks clock pulses are over
Polled == prev.latched /\ ~bus.pin_latch /\ ~bus.pin_clk

\* C28: after a latch pulse and k clock pulses, k in 0..7, read() returns
\* bit k of the latch register as it was at the latch pulse: 0 if button k
\* (A, B, Select, Start, Up, Down, Left, Right) was recorded as pressed,
\* 1 if not.
C28_PollOrder ==
  (Polled /\ ticks <= 7) =>
    /\ SNESController_read(bus.con) = (prev.latch \div Pow2(ticks)) % 2
    /\ SNESController_read(bus.con) = (IF ticks \in prev.recorded THEN 0 ELSE 1)
    /\ (log[1][1] = "read" => log[1][2] = (IF ticks \in prev.recorded THEN 0 ELSE 1))

\* the host has read button Right, the only one recorded, after seven clocks
C28_Witness ==
  /\ Polled /\ ticks = 7
  /\ prev.recorded = {7}
  /\ log = << <<"read", 0>> >>

-----------------------------------------------------------------------------
(* The debugger of debugger.rs over the CPU test system: its commands and  *)
(* the loops they run.  dbg.at is "prompt" while main.rs waits for a       *)
(* command and "step_next" while a command is inside step_next, about to   *)
(* call cycle(); dbg.arg is the argument of the last run command and      *)
(* dbg.key the key run_n received after the last instruction.              *)

\* the outcome of debugger code: the Debugger, and the panic if it aborted
Dbg(d, panic) == [d |-> d, panic |-> panic]

\* self.breakpoints.contains(&addr)
contains(d, addr) == \E i \in 1 .. Len(d.breakpoints) : d.breakpoints[i] = addr

\* Debugger::add_breakpoint
add_breakpoint(d, addr) ==
  IF contains(d, addr) THEN d
  ELSE [d EXCEPT !.breakpoints = Append(@, addr)]

\* the command has returned to main.rs; step_over pops its breakpoint
returned(d) ==
  IF d.cmd = "step_over_jsr"
  THEN [d EXCEPT !.at = "prompt",
                 !.breakpoints = SubSeq(@, 1, Len(@) - 1)]
  ELSE [d EXCEPT !.at = "prompt"]

\* step_out: match self.sys.get_cpu().ir.0 { JSR => depth += 1, RTS => depth -= 1 }
count_depth(d, c) ==
  [d EXCEPT !.depth = IF c.ir.ins = "JSR" THEN @ + 1
                      ELSE IF c.ir.ins = "RTS" THEN @ - 1 ELSE @,
            !.at = "step_next"]

\* self.breakpoints.contains(&(self.sys.get_cpu().pc - 1))
at_breakpoint(d, c) == contains(d, (c.pc + 65535) % 65536)
pc_underflow(c, oc) == IF oc /\ c.pc = 0 THEN "attempt to subtract with overflow" ELSE "none"

\* run_n after step_next: the key, is_halted(), then the breakpoints
run_n_tests(d, c, oc, key) ==
  IF key = "Esc" THEN Dbg(returned(d), "none")
  ELSE IF is_halted(c) THEN Dbg(returned(d), "none")
  ELSE IF pc_underflow(c, oc) # "none" THEN Dbg(d, pc_underflow(c, oc))
  ELSE IF at_breakpoint(d, c)
  THEN (IF d.skip_breakpoints = 0 THEN Dbg(returned(d), "none")
        ELSE Dbg([d EXCEPT !.skip_breakpoints = @ - 1], "none"))
  ELSE Dbg(d, "none")

\* run_headless after step_next
run_headless_tests(d, c, oc) ==
  IF is_halted(c) THEN Dbg(returned(d), "none")
  ELSE IF pc_underflow(c, oc) # "none" THEN Dbg(d, pc_underflow(c, oc))
  ELSE IF at_breakpoint(d, c) THEN Dbg(returned(d), "none")
  ELSE Dbg(d, "none")

\* step_out after step_next
step_out_tests(d, c) ==
  IF is_halted(c) THEN Dbg(returned(d), "none")
  ELSE IF d.depth < 0 THEN Dbg(returned(d), "none")
  ELSE Dbg(count_depth(d, c), "none")

\* Debugger::step_next after a call of cycle() that left the CPU c:
\* while tcu != 1 it cycles again, then the loop of the command goes on
step_next(d, c, oc, key) ==
  IF c.tcu # 1 THEN Dbg(d, "none")
  ELSE IF d.cmd \in {"step", "step_over"} THEN Dbg(returned(d), "none")
  ELSE IF d.cmd \in {"run_n", "step_over_jsr"} THEN run_n_tests(d, c, oc, key)
  ELSE IF d.cmd = "run_headless" THEN run_headless_tests(d, c, oc)
  ELSE step_out_tests(d, c)

\* the commands of main.rs up to their first call of cycle(): step,
\* run n, headless, over, out
command(d, c, cmd, n) ==
  IF cmd = "run_n"
  THEN [d EXCEPT !.cmd = cmd, !.at = "step_next", !.skip_breakpoints = n, !.arg = n,
                 !.key = "none"]
  ELSE IF cmd = "step_over"
  THEN (IF c.ir.ins = "JSR"
        THEN [d EXCEPT !.cmd = "step_over_jsr", !.at = "step_next", !.skip_breakpoints = 1,
                       !.breakpoints = Append(@, (c.pc + 2) % 65536), !.key = "none"]
        ELSE [d EXCEPT !.cmd = cmd, !.at = "step_next", !.key = "none"])
  ELSE IF cmd = "step_out"
  THEN count_depth([d EXCEPT !.cmd = cmd, !.depth = 0, !.key = "none"], c)
  ELSE [d EXCEPT !.cmd = cmd, !.at = "step_next", !.key = "none"]

\* three NOPs and STP; a subroutine call; an endless loop
DbgImages ==
  { [org |-> Entry, code |-> <<234, 234, 234, 219>>, fill |-> 219, kind |-> "NOPS"],
    [org |-> Entry, code |-> <<32, 5, 4, 219, 219, 96>>, fill |-> 219, kind |-> "CALL"],
    [org |-> Entry, code |-> <<234, 76, 0, 4>>, fill |-> 219, kind |-> "LOOP"] }
BreakAddrs == { Entry + 1, Entry + 2, Entry + 5 }
Commands == { "step", "run_n", "run_headless", "step_over", "step_out" }
RunArgs == { 0, 1 }
Keys == { "none", "Esc" }

\* Debugger::new(CPUTestSystem::new(rom, 0x400))
InitDbg ==
  /\ \E img \in DbgImages : bus = TestSystemBus_new(img, img.org)
  /\ cpu = W65C02S_new
  /\ log = <<>>
  /\ fault = "none"
  /\ overflow_checks \in BOOLEAN
  /\ ticks = 0
  /\ prev = W65C02S_new
  /\ dbg = Debugger_new

\* the command "break addr" at the prompt
DbgBreak ==
  /\ fault = "none"
  /\ dbg.at = "prompt"
  /\ \E addr \in BreakAddrs : dbg' = add_breakpoint(dbg, addr)
  /\ UNCHANGED <<cpu, bus, log, fault, overflow_checks, ticks, prev>>

\* a command at the prompt that runs the system
DbgCommand ==
  /\ fault = "none"
  /\ dbg.at = "prompt"
  /\ \E cmd \in Commands : \E n \in (IF cmd = "run_n" THEN RunArgs ELSE {1}) :
       dbg' = command(dbg, cpu, cmd, n)
  /\ UNCHANGED <<cpu, bus, log, fault, overflow_checks, ticks, prev>>

\* the call of cycle() has left machine m and the debugger outcome r
DbgCycled(m, r, key) ==
  /\ cpu' = m.cpu
  /\ bus' = m.bus
  /\ log' = m.log
  /\ fault' = IF m.panic # "none" THEN m.panic ELSE r.panic
  /\ dbg' = IF m.panic # "none" THEN dbg
            ELSE IF m.cpu.tcu = 1 /\ dbg.cmd \in {"run_n", "step_over_jsr"}
            THEN [r.d EXCEPT !.key = key]
            ELSE r.d

\* the debugger after the machine m
DbgAfter(m, key) == DbgCycled(m, step_next(dbg, m.cpu, overflow_checks, key), key)

\* Debugger::cycle() inside step_next, and the code up to the next call of
\* cycle() or the return of the command; a key may have been pressed
DbgCycle ==
  /\ fault = "none"
  /\ dbg.at = "step_next"
  /\ ticks < MaxDbgTicks
  /\ \E key \in Keys : DbgAfter(cycle(Machine(cpu, bus, overflow_checks)), key)
  /\ prev' = cpu
  /\ ticks' = ticks + 1
  /\ UNCHANGED overflow_checks

NextDbg == DbgBreak \/ DbgCommand \/ DbgCycle
SpecDbg == InitDbg /\ [][NextDbg]_vars

-----------------------------------------------------------------------------
(* The debugger claims, under SpecDbg.                                     *)

\* a command is inside its loop
InLoop == dbg.at = "step_next"

\* C29: once the CPU has reached Halt, the loop of step, run, step-over,
\* step-out or headless that is in progress returns after finitely many
\* ticks.  The loop is deterministic, so it returns only if it never comes
\* back to a state it has been in: no call of cycle() made by a loop on a
\* halted CPU leaves CPU, memory and debugger as they were.
C29_LoopsReturnOnHalt ==
  [][(InLoop /\ is_halted(cpu)) =>
       ~(cpu' = cpu /\ bus' = bus /\ dbg' = dbg)]_vars

\* step_next has returned in this step: an instruction boundary of the loop
Boundary == InLoop /\ fault' = "none" /\ cpu'.tcu = 1

\* the run in progress is "run" with its default argument, or headless
DefaultRun == (dbg.cmd = "run_n" /\ dbg.arg = 1) \/ dbg.cmd = "run_headless"

\* C30: a run started by "run" with its default argument, and a headless
\* run, stop at the first instruction boundary where PC - 1 is a breakpoint
\* address: no such boundary is passed over, and the run stops at a boundary
\* only there, when the CPU has halted or on Escape.
C30_StopAtFirstBreakpoint ==
  [][(DefaultRun /\ Boundary /\ ~is_halted(cpu')) =>
       IF at_breakpoint(dbg, cpu') THEN dbg'.at = "prompt"
       ELSE (dbg'.at = "prompt" => dbg'.key = "Esc")]_vars

-----------------------------------------------------------------------------
(* The ports of the breadboard, written as the adapter writes them, with   *)
(* a player at the controller.                                             *)

\* port A bytes with the latch (0x02) and clock (0x04) pins low or high
PinVals == { 0, 2, 4, 6 }
PortBBytes == { 0, 65 }

\* Peripherals::new()
InitPorts ==
  /\ bus = [kind |-> "ports", ports |-> Peripherals_new]
  /\ cpu = W65C02S_new
  /\ log = <<>>
  /\ fault = "none"
  /\ overflow_checks = FALSE
  /\ ticks = 0
  /\ prev = W65C02S_new
  /\ dbg = Debugger_new

\* one call of write_a(val)
PortsWriteA ==
  /\ ticks < MaxPortWrites
  /\ \E val \in PinVals :
       /\ bus' = [bus EXCEPT !.ports = write_a(@, val)]
       /\ log' = << <<"write_a", val>> >>
  /\ ticks' = ticks + 1
  /\ UNCHANGED <<cpu, fault, overflow_checks, prev, dbg>>

\* one call of write_b(val)
PortsWriteB ==
  /\ ticks < MaxPortWrites
  /\ \E val \in PortBBytes :
       /\ bus' = [bus EXCEPT !.ports = write_b(@, val)]
       /\ log' = << <<"write_b", val>> >>
  /\ ticks' = ticks + 1
  /\ UNCHANGED <<cpu, fault, overflow_checks, prev, dbg>>

\* the player taps a button: on_press and on_release, as a key does
PortsTap ==
  /\ \E b \in LateButtons :
       /\ HasBit(bus.ports.con.latch, Pow2(b))
       /\ bus' = [bus EXCEPT !.ports.con =
                    SNESController_on_release(SNESController_on_press(@, b), b)]
       /\ log' = << <<"tap", b>> >>
  /\ (IF log = <<>> THEN TRUE ELSE log[1][1] # "tap")
  /\ UNCHANGED <<cpu, fault, overflow_checks, ticks, prev, dbg>>

NextPorts == PortsWriteA \/ PortsWriteB \/ PortsTap
SpecPorts == InitPorts /\ [][NextPorts]_vars

\* this step is a port write; the pins before and after it
PinWrite == ticks' = ticks + 1
pins == get_con_pins(bus.ports)
con == bus.ports.con

\* the shift register after a write in which the pins rose as given
Loaded(rises) == IF rises THEN con.latch ELSE con.shift
ShiftedOnce(val, rises) == IF rises THEN val \div 2 ELSE val

\* C32: the shift register is loaded from the latch register only when the
\* latch pin goes from low to high and shifted right only when the clock
\* pin goes from low to high; a port A or port B write that leaves a pin
\* high loads and shifts no second time.
C32_PinsEdgeSensitive ==
  [][PinWrite =>
       con'.shift = ShiftedOnce(Loaded(~pins.latch /\ pins'.latch),
                                ~pins.clk /\ pins'.clk)]_vars

-----------------------------------------------------------------------------
(* The harness running one BBRn or BBSn from power-on, with every offset   *)
(* byte; the zero-page byte tested is the fill byte of the image.          *)

\* BBRn = 0x0F + 0x10 n, BBSn = 0x8F + 0x10 n
BitBranchOpcodes == { 15 + 16 * k : k \in 0..15 }
TestedBytes == { 85, 170 }

\* the image records the offset byte in op1 and in op2 whether bit n of the
\* tested byte makes the branch taken
BitBranchImages ==
  { [org |-> Entry, code |-> <<op, 16, off>>, fill |-> v,
     kind |-> "BITBRANCH", n |-> 0, at |-> Entry, s |-> 0, op1 |-> off,
     op2 |-> IF ((v \div Pow2((op \div 16) % 8)) % 2 = 1) = (op >= 128) THEN 1 ELSE 0] :
      op \in BitBranchOpcodes, off \in 0..255, v \in TestedBytes }

InitBit ==
  /\ \E img \in BitBranchImages : bus = TestSystemBus_new(img, img.org)
  /\ cpu = W65C02S_new
  /\ log = <<>>
  /\ fault = "none"
  /\ overflow_checks \in BOOLEAN
  /\ ticks = 0
  /\ prev = W65C02S_new
  /\ dbg = Debugger_new

BitCycle == StepCycle(MaxBitTicks)

NextBit == BitCycle
SpecBit == InitBit /\ [][NextBit]_vars

\* C33: BBRn and BBSn at address a are three bytes long, read the zero-page
\* byte their second byte names, and change no memory, register or flag;
\* they end with PC = a + 3 + offset, the third byte read as a signed 8-bit
\* value, when bit n of the byte read is clear (BBRn) or set (BBSn), and with
\* PC = a + 3 otherwise.
C33_BitBranches ==
  [][ (prog.kind = "BITBRANCH" /\ ticks >= T0 /\ ticks <= T0 + 4 /\ ticks' = ticks + 1) =>
        /\ ticks = T0 => (cpu.pc = prog.at /\ cpu.tcu = 0)
        /\ ticks = T0 + 3 => log' = << <<"read", prog.code[2]>> >>
        /\ ticks = T0 + 4 =>
             /\ cpu'.tcu = 0
             /\ cpu'.pc = prog.at + 3 + (IF prog.op2 = 1 THEN Signed8(prog.op1) ELSE 0)
        /\ fault' = "none"
        /\ Registers(cpu') = Registers(cpu)
        /\ bus' = bus
    ]_vars

-----------------------------------------------------------------------------
(* The harness running LDX #x; LDY #y and one load through a zero-page     *)
(* addressing mode, with every operand byte.                               *)

\* LDA zp,X; LDX zp,Y; LDA (zp); LDA (zp,X); LDA (zp),Y
ZeroPageLoads == { 181, 182, 178, 161, 177 }
IndexVals == { 0, 1, 255 }

\* memory is filled with 0x02, so that every pointer read is 0x0202
ZeroPageImages ==
  { [org |-> Entry, code |-> <<162, x, 160, y, op, zp>>, fill |-> 2,
     kind |-> "ZP", n |-> 2, at |-> Entry + 4, s |-> 0, op1 |-> zp, op2 |-> op] :
      op \in ZeroPageLoads, zp \in 0..255, x \in IndexVals, y \in IndexVals }

InitZp ==
  /\ \E img \in ZeroPageImages : bus = TestSystemBus_new(img, img.org)
  /\ cpu = W65C02S_new
  /\ log = <<>>
  /\ fault = "none"
  /\ overflow_checks \in BOOLEAN
  /\ ticks = 0
  /\ prev = W65C02S_new
  /\ dbg = Debugger_new

ZpCycle == StepCycle(MaxZpTicks)

NextZp == ZpCycle
SpecZp == InitZp /\ [][NextZp]_vars

\* the X and Y the program loads
ProgX == prog.code[2]
ProgY == prog.code[4]

\* the addresses the ticks of the load after its opcode fetch are to access,
\* tick by tick (<<>> for a tick without bus access): the operand fetch, the
\* address formation within page zero, the data read
ZeroPageAccesses ==
  LET zp == prog.op1
      ptr == 2 * 256 + 2
  IN  CASE prog.op2 = 181 -> << <<prog.at + 1>>, <<>>, <<(zp + ProgX) % 256>> >>
        [] prog.op2 = 182 -> << <<prog.at + 1>>, <<>>, <<(zp + ProgY) % 256>> >>
        [] prog.op2 = 178 -> << <<prog.at + 1>>, <<zp>>, <<(zp + 1) % 256>>, <<ptr>> >>
        [] prog.op2 = 161 -> << <<prog.at + 1>>, <<>>, <<(zp + ProgX) % 256>>,
                                <<(zp + ProgX + 1) % 256>>, <<ptr>> >>
        [] prog.op2 = 177 -> << <<prog.at + 1>>, <<zp>>, <<(zp + 1) % 256>>,
                                <<ptr + ProgY>> >>

\* the addresses of the bus accesses of a tick
AddressesOf(l) == [ i \in 1..Len(l) |-> l[i][2] ]

\* C34: zero-page confinement.  The effective address of zp,X and zp,Y is
\* (operand + register) mod 0x100, and (zp), (zp,X) and (zp),Y read both
\* pointer bytes from page zero, at p and (p + 1) mod 0x100 (p the operand,
\* X-adjusted mod 0x100 for (zp,X)); for every operand and register value,
\* p = 0xFF included, address formation accesses nothing outside
\* 0x0000..0x00FF and does not fault.
C34_ZeroPageConfinement ==
  [][ (prog.kind = "ZP" /\ ticks > T0 /\ ticks <= T0 + Len(ZeroPageAccesses)
         /\ ticks' = ticks + 1) =>
        /\ fault' = "none"
        /\ AddressesOf(log') = ZeroPageAccesses[ticks - T0]
        /\ cpu'.tcu = (IF ticks = T0 + Len(ZeroPageAccesses) THEN 0 ELSE cpu.tcu + 1)
    ]_vars

-----------------------------------------------------------------------------
(* Claims about every opcode byte, under the CPU-test harness              *)

\* C35: the timing control unit stays within 0..7, for every opcode byte,
\* the undefined opcodes that run as multi-cycle NOPs included.
C35_TcuWithinSeven == cpu.tcu <= 7

\* C36: every opcode is fully modelled and every instruction terminates.  A
\* tick of the running CPU never aborts; it ends the instruction (TCU = 0,
\* or Halt for STP, or Wait for WAI) or moves TCU up by one, to at most 8, so
\* the ninth tick after an opcode fetch at the latest ends the instruction.
C36_EveryOpcodeTerminates ==
  [][ (cpu.state = "Run" /\ ticks' = ticks + 1) =>
        /\ fault' = "none"
        /\ \/ cpu'.state \in { "Halt", "Wait" }
           \/ cpu'.tcu = 0
           \/ cpu'.tcu = cpu.tcu + 1 /\ cpu'.tcu <= 8
    ]_vars

-----------------------------------------------------------------------------
(* Claims about the adapter on the breadboard                              *)

T1Flag(b) == HasBit(b.per.ifr, T1)

\* the program has selected the one-shot mode and loaded Timer 1 through
\* T1C_H: its first three stores, done after the reset and 3 * 6 ticks
OneShotLoaded ==
  /\ SubSeq(bus.rom.img.code, 1, 4) = <<169, 0, 141, ACR>>
  /\ SubSeq(bus.rom.img.code, 13, 14) = <<141, T1C_H>>
  /\ ticks >= 7 + 3 * 6
  /\ bus.per.acr \div 64 = 0

\* the tick's bus access clears the Timer 1 flag: a read of T1C_L or a write
\* of a byte with bit 6 set to IFR
ClearsT1(l) ==
  \E i \in 1..Len(l) :
    \/ l[i] = <<"read", 24576 + T1C_L>>
    \/ l[i][1] = "write" /\ l[i][2] = 24576 + IFR /\ HasBit(l[i][3], T1)

\* C37: Timer 1 in one-shot mode (ACR bits 7..6 = 0) fires once: after the
\* counter is loaded by a write to T1C_H the flag is set when the count
\* expires, that is by a tick that starts with the counter at 0 and only by
\* such a tick; once software has cleared the flag, by reading T1C_L or by
\* writing 1 to bit 6 of IFR, the flag is clear after that tick (and stays
\* clear until T1C_H is written again).
C37_OneShotFiresOnce ==
  [][ (OneShotLoaded /\ ticks' = ticks + 1) =>
        /\ (~T1Flag(bus) /\ T1Flag(bus')) => bus.per.t1c = 0
        /\ (T1Flag(bus) /\ ClearsT1(log')) => ~T1Flag(bus')
    ]_vars

\* the adapter registers that can be read: PB, DDRB, DDRA, T1C_L, T1C_H,
\* T1L_L, T1L_H, IFR, IER and PA
ReadableRegisters == { PB, DDRB, DDRA, T1C_L, T1C_H, T1L_L, T1L_H, IFR, IER, PA }

\* C38: peek agrees with read.  In every state of the adapter and its ports
\* and for every readable register, peek returns the byte that read returns
\* in that state; for PB with latching disabled both are
\* (ORB & DDRB) | (port B pins & ~DDRB).
C38_PeekAgreesWithRead ==
  bus.kind = "breadboard" =>
    /\ \A reg \in ReadableRegisters :
         /\ MOS6522_peek(bus.per, reg).panic = MOS6522_read(bus.per, reg).panic
         /\ MOS6522_read(bus.per, reg).panic = "none" =>
              MOS6522_peek(bus.per, reg).val = MOS6522_read(bus.per, reg).val
    /\ (~HasBit(bus.per.acr, 2) /\ peek_b(bus.per.ports).panic = "none") =>
         MOS6522_read(bus.per, PB).val
           = PortMix(bus.per.orb, bus.per.ddrb, peek_b(bus.per.ports).val)

-----------------------------------------------------------------------------
(* The harness running a program whose interrupt handler is one RTI, with  *)
(* a host that raises and lowers the interrupt input at any moment.        *)

\* LDX #s; TXS; INX; INY; NOP; LDA #5; STP in memory filled with RTI (0x40):
\* the vector at 0xFFFE/0xFFFF is 0x4040 and the handler is one RTI
IrqImages ==
  { [org |-> Entry, code |-> <<162, s, 154, 232, 200, 234, 169, 5, 219>>, fill |-> 64,
     kind |-> "IRQ", n |-> 2, at |-> Entry + 3, s |-> s, op1 |-> 0, op2 |-> 0] :
      s \in StackPointers }

InitIrq ==
  /\ \E img \in IrqImages : bus = TestSystemBus_new(img, img.org)
  /\ cpu = W65C02S_new
  /\ log = <<>>
  /\ fault = "none"
  /\ overflow_checks \in BOOLEAN
  /\ ticks = 0
  /\ prev = W65C02S_new
  /\ dbg = Debugger_new

IrqCycle == StepCycle(MaxIrqTicks)

NextIrq == IrqCycle \/ SetInterrupt
SpecIrq == InitIrq /\ [][NextIrq]_vars

\* k calls of cycle() from machine m, the bus accesses logged in order
RECURSIVE CycleN(_, _)
CycleN(m, k) == IF k = 0 THEN m ELSE CycleN(cycle(m), k - 1)

\* an interrupt strikes: a boundary with the input asserted and
\* InterruptDisable clear
Struck == cpu.state = "Run" /\ cpu.tcu = 0 /\ Accepts(cpu) /\ fault = "none"

\* the stack address n pushes below S of CPU c
StackAt(c, n) == 256 + ((c.s + 256 - n) % 256)

\* the bus accesses of the interrupt sequence and of the handler's RTI, from
\* CPU c: three pushes, the vector, the opcode of the RTI, three pops
IrqAccesses(c) ==
  << <<"write", StackAt(c, 0), c.pc \div 256>>,
     <<"write", StackAt(c, 1), c.pc % 256>>,
     <<"write", StackAt(c, 2), SetBit(SetBit(c.p, BRK), User)>>,
     <<"read", 65534>>, <<"read", 65535>>,
     <<"read", 64 * 256 + 64>>,
     <<"read", StackAt(c, 2)>>, <<"read", StackAt(c, 1)>>, <<"read", StackAt(c, 0)>> >>

\* machine m is what the interrupt sequence and the RTI leave of CPU c
Resumed(c, m) ==
  /\ m.panic = "none"
  /\ m.log = IrqAccesses(c)
  /\ m.cpu.state = "Run" /\ m.cpu.tcu = 0
  /\ m.cpu.pc = c.pc
  /\ m.cpu.s = c.s
  /\ <<m.cpu.a, m.cpu.x, m.cpu.y>> = <<c.a, c.x, c.y>>
  /\ RAM_read(m.bus.ram, StackAt(c, 0)) = c.pc \div 256
  /\ RAM_read(m.bus.ram, StackAt(c, 1)) = c.pc % 256

\* the host lowers the interrupt input of machine m
Lowered(m) == [m EXCEPT !.cpu = set_interrupt(@, FALSE)]

\* machine m, one tick on with the input low, has fetched the opcode at a
FetchedAt(m, a) ==
  /\ m.panic = "none"
  /\ m.log[Len(m.log)] = <<"read", a>>
  /\ m.cpu.pc = a + 1

\* C39: an interrupt resumes where it struck.  When an interrupt is accepted
\* at a boundary with PC = a, the return address pushed is a, the handler's
\* RTI, executed with the stack as the interrupt left it, sets PC = a, and
\* the next opcode fetched is the one at a: no instruction is skipped or
\* executed twice.
C39_InterruptResumes ==
  (prog.kind = "IRQ" /\ Struck) =>
    /\ Resumed(cpu, CycleN(Machine(cpu, bus, overflow_checks), 7 + 6))
    /\ FetchedAt(cycle(Lowered(CycleN(Machine(cpu, bus, overflow_checks), 7 + 6))),
                 cpu.pc)

\* the handler's RTI has returned into the program after an interrupt that
\* struck between two of its instructions
C39_Witness ==
  /\ prog.kind = "IRQ"
  /\ prev.ir.ins = "RTI" /\ prev.tcu = 5 /\ cpu.tcu = 0 /\ cpu.state = "Run"
  /\ cpu.pc > prog.at /\ cpu.pc < Entry + 9
  /\ RAM_read(bus.ram, 256 + cpu.s) = cpu.pc \div 256
  /\ RAM_read(bus.ram, 256 + ((cpu.s + 255) % 256)) = cpu.pc % 256
  /\ cpu.x = (prog.s + 1) % 256
  /\ fault = "none"

-----------------------------------------------------------------------------
(* Claims about short presses of the controller's buttons                  *)

\* C40: a short press is not lost and is reported once.  If a button is
\* pressed and released between two latch pulses, the poll that follows the
\* next latch pulse reads it as pressed (0), and the poll that follows the
\* latch pulse after that reads it as released (1) unless it was pressed
\* again, whatever the other buttons do.
C40_ShortPressReportedOnce ==
  (Polled /\ ticks <= 7) =>
    /\ ticks \in prev.tapped => SNESController_read(bus.con) = 0
    /\ (ticks \in prev.earlier /\ ticks \notin prev.recorded) =>
         SNESController_read(bus.con) = 1

\* Right was tapped while A was held, two latch pulses ago, and the host has
\* read it as released after seven clocks
C40_Witness ==
  /\ Polled /\ ticks = 7
  /\ 7 \in prev.earlier /\ 7 \notin prev.recorded
  /\ 0 \in prev.recorded /\ 0 \in bus.held
  /\ log = << <<"read", 1>> >>

=============================================================================
